---- MODULE Spec2Model ----
(***************************************************************************)
(* Signal pipeline of the portfolio analysis backend: per-indicator        *)
(* scorers, the composite aggregator, the rolling backtest engine with its *)
(* HTTP entry point, and the zigzag pivot automaton of the Elliott wave    *)
(* detector.                                                               *)
(*                                                                         *)
(* Numbers.  The code works in binary floating point; the model works in   *)
(* fixed point.  Scores, weights and percentages are integers in units of  *)
(* 1e-4 (the resolution at which compute_composite and run_backtest round  *)
(* what they report), prices are integers, oscillator readings (RSI, %K,   *)
(* ADX, put/call ratio) are integers in units of 1e-2.  NaN is a value of  *)
(* its own with Python's comparison semantics (every comparison false).    *)
(*                                                                         *)
(* Indicators.  The pandas indicator library is not re-derived bar by bar  *)
(* for every indicator: a scorer is modelled on the readings it takes from *)
(* the indicator series (.iloc[-1], .iloc[-2]).  SMA and RSI are computed  *)
(* from the close column; the readings of the other indicators at a row    *)
(* are a column of that row.                                               *)
(***************************************************************************)
EXTENDS Integers, Sequences, FiniteSets, TLC

VARIABLES
    cin,        \* compute_composite: the input (indicator readings, put_call_ratio)
    sig,        \* compute_composite: the CompositeSignal returned, or what escaped
    market,     \* the data provider: the symbol's daily bars up to today
    today,      \* date.today()
    req,        \* GET /backtest/run: the request (start, end)
    resp,       \* GET /backtest/run: the response
    series,     \* zigzag_pivots: its arguments high, low, close
    zz,         \* zigzag_pivots: the position in the function and its locals
    pivs,       \* the wave templates and validate_fibonacci_ratios: the argument pivots
    verdict,    \* the wave templates and validate_fibonacci_ratios: what they returned
    bars,       \* detect_waves and score_elliott_wave: the arguments high, low, close
    wave,       \* detect_waves: what it returned
    ew,         \* score_elliott_wave: what it returned
    rin,        \* compute_risk_context: its arguments
    ctx,        \* compute_risk_context: what it returned
    trades,     \* the table paper_trades, by id
    account,    \* the current_cash of the row of paper_accounts, None without a row
    calls,      \* the requests to close a trade, by client: position and locals
    positions,  \* the table positions, by id, each row with its transactions
    answer,     \* the last request to the portfolio and the status it was given
    closes,     \* score_rsi: the close series it is called with
    rating      \* score_rsi: the RSI it read and the score it returned

vars == <<cin, sig, market, today, req, resp, series, zz, pivs, verdict, bars, wave, ew,
          rin, ctx, trades, account, calls, positions, answer,
          closes, rating>>

----------------------------------------------------------------------------
(* The variables by component, and each component at rest *)

NoPutCall == [none |-> TRUE, v |-> 0]
NoInput == [readings |-> <<>>, put_call_ratio |-> NoPutCall]
NoSignal == [raised |-> FALSE, direction |-> "none", conviction |-> "none",
             composite_score |-> 0, confidence |-> 0, signals |-> <<>>]
NoRequest == [start |-> 0, end |-> 0]
NoResult == [raised |-> "", daily_signals |-> <<>>]
NoResponse == [status |-> 0, result |-> NoResult]
NoSeries == [high |-> <<>>, low |-> <<>>, close |-> <<>>]
NoCall == [pc |-> "idle"]

compositeVars == <<cin, sig>>
backtestVars == <<market, today, req, resp>>
zigzagVars == <<series, zz>>
windowVars == <<pivs, verdict>>
wavesVars == <<bars, wave, ew>>
riskVars == <<rin, ctx>>
paperVars == <<trades, account, calls>>
portfolioVars == <<positions, answer>>
rsiVars == <<closes, rating>>
\* paper_accounts has no row yet
NoAccount == 0 - 1

IdleComposite == cin = NoInput /\ sig = NoSignal
IdleBacktest == market = <<>> /\ today = 0 /\ req = NoRequest /\ resp = NoResponse
IdleZigzag == series = NoSeries /\ zz = NoCall
IdleWindow == pivs = <<>> /\ verdict = NoCall
IdleWaves == bars = NoSeries /\ wave = NoCall /\ ew = NoCall
NoRiskCall == [df |-> NoSeries, direction |-> "hold", composite_score |-> 0, portfolio_value |-> 0]
IdleRisk == rin = NoRiskCall /\ ctx = NoCall
IdlePaper == trades = <<>> /\ account = NoAccount /\ calls = <<>>
NoAnswer == [status |-> 0, request |-> "none", position_id |-> 0, quantity |-> 0, price |-> 0]
IdlePortfolio == positions = <<>> /\ answer = NoAnswer
IdleRsi == closes = <<>> /\ rating = NoCall


\* what each component leaves alone
outsideComposite ==
    <<backtestVars, zigzagVars, windowVars, wavesVars,
      riskVars, paperVars, portfolioVars, rsiVars>>
outsideBacktest ==
    <<compositeVars, zigzagVars, windowVars, wavesVars,
      riskVars, paperVars, portfolioVars, rsiVars>>
outsideZigzag ==
    <<compositeVars, backtestVars, windowVars, wavesVars,
      riskVars, paperVars, portfolioVars, rsiVars>>
outsideWindow ==
    <<compositeVars, backtestVars, zigzagVars, wavesVars,
      riskVars, paperVars, portfolioVars, rsiVars>>
outsideWaves ==
    <<compositeVars, backtestVars, zigzagVars, windowVars,
      riskVars, paperVars, portfolioVars, rsiVars>>
outsideRisk ==
    <<compositeVars, backtestVars, zigzagVars, windowVars,
      wavesVars, paperVars, portfolioVars, rsiVars>>
outsidePaper ==
    <<compositeVars, backtestVars, zigzagVars, windowVars,
      wavesVars, riskVars, portfolioVars, rsiVars>>
outsidePortfolio ==
    <<compositeVars, backtestVars, zigzagVars, windowVars,
      wavesVars, riskVars, paperVars, rsiVars>>
outsideRsi ==
    <<compositeVars, backtestVars, zigzagVars, windowVars,
      wavesVars, riskVars, paperVars, portfolioVars>>

IdleOutsideComposite ==
    /\ IdleBacktest
    /\ IdleZigzag
    /\ IdleWindow
    /\ IdleWaves
    /\ IdleRisk
    /\ IdlePaper
    /\ IdlePortfolio
    /\ IdleRsi
IdleOutsideBacktest ==
    /\ IdleComposite
    /\ IdleZigzag
    /\ IdleWindow
    /\ IdleWaves
    /\ IdleRisk
    /\ IdlePaper
    /\ IdlePortfolio
    /\ IdleRsi
IdleOutsideZigzag ==
    /\ IdleComposite
    /\ IdleBacktest
    /\ IdleWindow
    /\ IdleWaves
    /\ IdleRisk
    /\ IdlePaper
    /\ IdlePortfolio
    /\ IdleRsi
IdleOutsideWindow ==
    /\ IdleComposite
    /\ IdleBacktest
    /\ IdleZigzag
    /\ IdleWaves
    /\ IdleRisk
    /\ IdlePaper
    /\ IdlePortfolio
    /\ IdleRsi
IdleOutsideWaves ==
    /\ IdleComposite
    /\ IdleBacktest
    /\ IdleZigzag
    /\ IdleWindow
    /\ IdleRisk
    /\ IdlePaper
    /\ IdlePortfolio
    /\ IdleRsi
IdleOutsideRisk ==
    /\ IdleComposite
    /\ IdleBacktest
    /\ IdleZigzag
    /\ IdleWindow
    /\ IdleWaves
    /\ IdlePaper
    /\ IdlePortfolio
    /\ IdleRsi
IdleOutsidePaper ==
    /\ IdleComposite
    /\ IdleBacktest
    /\ IdleZigzag
    /\ IdleWindow
    /\ IdleWaves
    /\ IdleRisk
    /\ IdlePortfolio
    /\ IdleRsi
IdleOutsidePortfolio ==
    /\ IdleComposite
    /\ IdleBacktest
    /\ IdleZigzag
    /\ IdleWindow
    /\ IdleWaves
    /\ IdleRisk
    /\ IdlePaper
    /\ IdleRsi
IdleOutsideRsi ==
    /\ IdleComposite
    /\ IdleBacktest
    /\ IdleZigzag
    /\ IdleWindow
    /\ IdleWaves
    /\ IdleRisk
    /\ IdlePaper
    /\ IdlePortfolio

----------------------------------------------------------------------------
(* Fixed point and float special values *)

\* round(x, 4): scores, weights and returns are reported at 4 decimals
Scale == 10000

NaN == 0 - 2 * 10^9
IsNaN(x) == x = NaN

\* Python's None where a float is optional
None == 0 - (2 * 10^9 - 1)

Abs(x) == IF x < 0 THEN 0 - x ELSE x

\* floor(a / b) for b > 0
FloorDiv(a, b) == a \div b

\* a / b rounded to the nearest integer, ties to even (Python's round), b > 0
RoundDiv(a, b) ==
    LET q == a \div b
        r == a % b
    IN  IF 2 * r < b THEN q
        ELSE IF 2 * r > b THEN q + 1
        ELSE IF q % 2 = 0 THEN q ELSE q + 1

\* Python's min(a, b) and max(a, b): b replaces a only when the comparison is true
PyMin(a, b) == IF IsNaN(a) \/ IsNaN(b) THEN a ELSE IF b < a THEN b ELSE a
PyMax(a, b) == IF IsNaN(a) \/ IsNaN(b) THEN a ELSE IF b > a THEN b ELSE a

\* the element of a one-element set; Only({e : x \in {v}}) is e with x naming the
\* value of v, computed once as by an assignment
Only(S) == CHOOSE r \in S : TRUE

\* the list f with its elements computed
AsList(f) == SubSeq(f, 1, Len(f))

RECURSIVE SumFrom(_, _)
SumFrom(s, i) == IF i > Len(s) THEN 0 ELSE s[i] + SumFrom(s, i + 1)

SumSeq(s) == Only({SumFrom(v, 1) : v \in {AsList(s)}})

----------------------------------------------------------------------------
(* technical.py *)

\* prices.rolling(window).mean() at the last bar, in cents: NaN before `window` bars
sma(prices, window) ==
    IF Len(prices) < window THEN NaN
    ELSE RoundDiv(SumSeq(SubSeq(prices, Len(prices) - window + 1, Len(prices))) * 100, window)

\* prices.diff(): NaN at the first bar, which where(delta > 0, 0.0) turns into 0.0
Delta(prices, i) == IF i = 1 THEN 0 ELSE prices[i] - prices[i - 1]

\* an RSI that is undefined whenever the average loss is zero
RsiUndefinedAtZeroLoss(prices, period) ==
    IF Len(prices) < period THEN NaN
    ELSE LET n == Len(prices)
             gain == SumSeq([j \in 1..period |->
                        IF Delta(prices, n - period + j) > 0
                        THEN Delta(prices, n - period + j) ELSE 0])
             loss == SumSeq([j \in 1..period |->
                        IF Delta(prices, n - period + j) < 0
                        THEN 0 - Delta(prices, n - period + j) ELSE 0])
         IN  IF loss = 0 THEN NaN
             ELSE RoundDiv(10000 * gain, gain + loss)

\* RSI at the last bar in units of 1e-2: 100 - 100 / (1 + gain / loss) over the last
\* `period` bars; gain / 0 is inf (RSI 100), 0 / 0 is NaN
rsi(prices, period) ==
    IF Len(prices) < period THEN NaN
    ELSE LET n == Len(prices)
             gain == SumSeq([j \in 1..period |->
                        IF Delta(prices, n - period + j) > 0
                        THEN Delta(prices, n - period + j) ELSE 0])
             loss == SumSeq([j \in 1..period |->
                        IF Delta(prices, n - period + j) < 0
                        THEN 0 - Delta(prices, n - period + j) ELSE 0])
         IN  IF loss = 0 THEN (IF gain = 0 THEN NaN ELSE 10000)
             ELSE RoundDiv(10000 * gain, gain + loss)

\* b = [ma, std, close]: the 20-bar SMA and rolling std at the last bar, in cents.
\* (prices - lower) / (upper - lower) with bands ma +- 2 std, in units of 1e-4;
\* a zero std gives 0 / 0
bollinger_pct_b(b) ==
    IF IsNaN(b.ma) THEN NaN
    ELSE IF b.std = 0 THEN NaN
    ELSE RoundDiv((b.close - (b.ma - 2 * b.std)) * Scale, 4 * b.std)

\* the true range at row i, counted from 1: prev_close is NaN at the first row and
\* max(axis=1) skips it
TrueRange(high, low, close, i) ==
    IF i = 1 THEN high[1] - low[1]
    ELSE PyMax(PyMax(high[i] - low[i], Abs(high[i] - close[i - 1])), Abs(low[i] - close[i - 1]))

\* tr.rolling(window=period).mean() as the window's sum, that is in units of
\* 1/period of a price: NaN before `period` rows
atr(high, low, close, period) ==
    AsList([i \in 1..Len(close) |->
        IF i < period THEN NaN
        ELSE SumSeq([j \in 1..period |-> TrueRange(high, low, close, i - period + j)])])

----------------------------------------------------------------------------
(* scoring.py *)

\* _clamp without its upper bound
ClampLowerOnly(value, lo, hi) == PyMax(lo, value)

_clamp(value, lo, hi) == PyMax(lo, PyMin(hi, value))

\* r = [fast_ma, slow_ma], prices in cents, not negative; x / 0 is +-inf or NaN
score_ma_crossover(r) ==
    IF IsNaN(r.fast_ma) \/ IsNaN(r.slow_ma) THEN 0
    ELSE IF r.slow_ma = 0
         THEN (IF r.fast_ma = 0 THEN _clamp(NaN, -Scale, Scale)
               ELSE IF r.fast_ma > 0 THEN Scale ELSE -Scale)
    ELSE _clamp(RoundDiv((r.fast_ma - r.slow_ma) * 50 * Scale, r.slow_ma), -Scale, Scale)

\* r = [value], RSI in units of 1e-2
score_rsi(r) ==
    IF IsNaN(r.value) THEN 0
    ELSE IF r.value <= 3000 THEN _clamp((3000 - r.value) * 5, -Scale, Scale)
    ELSE IF r.value >= 7000 THEN _clamp(0 - (r.value - 7000) * 5, -Scale, Scale)
    ELSE 0

\* r = [hist, recent_range], both in cents, recent_range >= 0
score_macd(r) ==
    IF IsNaN(r.hist) THEN 0
    ELSE IF r.recent_range = 0 THEN 0
    ELSE _clamp(RoundDiv(r.hist * Scale, r.recent_range), -Scale, Scale)

\* r = [pct_b], %B in units of 1e-4
score_bollinger(r) ==
    IF IsNaN(r.pct_b) THEN 0
    ELSE _clamp(0 - (r.pct_b - 5000) * 2, -Scale, Scale)

\* r = [ma, std, close], prices in cents, std >= 0
score_mean_reversion(r) ==
    IF IsNaN(r.ma) \/ r.std = 0 THEN 0
    ELSE _clamp(RoundDiv((r.ma - r.close) * Scale, 2 * r.std), -Scale, Scale)

\* r = [ema200_nan, e20_gt_e50, e50_gt_e200, close_gt_e200]
score_trend(r) ==
    IF r.ema200_nan THEN 0
    ELSE _clamp((IF r.e20_gt_e50 THEN 3300 ELSE -3300)
                + (IF r.e50_gt_e200 THEN 3300 ELSE -3300)
                + (IF r.close_gt_e200 THEN 3400 ELSE -3400), -Scale, Scale)

\* r = [len, obv_ma_nan_or_zero, obv_deviation (1e-4), price_up]
score_volume_trend(r) ==
    IF r.len < 20 THEN 0
    ELSE IF r.obv_ma_nan_or_zero THEN 0
    ELSE LET price_direction == IF r.price_up THEN 1 ELSE -1
         IN  IF (r.obv_deviation > 0 /\ price_direction > 0)
                \/ (r.obv_deviation < 0 /\ price_direction < 0)
             THEN _clamp(price_direction * PyMin(Abs(r.obv_deviation), Scale), -Scale, Scale)
             ELSE 0

\* r = [adx (1e-2), plus_gt_minus]
score_adx(r) ==
    IF IsNaN(r.adx) THEN 0
    ELSE IF r.adx < 2000 THEN 0
    ELSE LET strength == IF r.adx >= 5000 THEN Scale
                         ELSE 5000 + RoundDiv((r.adx - 2000) * 5, 3)
         IN  IF r.plus_gt_minus THEN _clamp(strength, -Scale, Scale)
             ELSE _clamp(0 - strength, -Scale, Scale)

\* r = [len, k, d, prev_k, prev_d], %K and %D in units of 1e-2
score_stochastic(r) ==
    IF IsNaN(r.k) \/ IsNaN(r.d) THEN 0
    ELSE LET base == IF r.k <= 2000 THEN _clamp((2000 - r.k) * 5, -Scale, Scale)
                     ELSE IF r.k >= 8000 THEN _clamp(0 - (r.k - 8000) * 5, -Scale, Scale)
                     ELSE 0
         IN  IF r.len >= 2 /\ ~(IsNaN(r.prev_k) \/ IsNaN(r.prev_d))
             THEN IF r.prev_k <= r.prev_d /\ r.k > r.d THEN _clamp(base + 3000, -Scale, Scale)
                  ELSE IF r.prev_k >= r.prev_d /\ r.k < r.d THEN _clamp(base - 3000, -Scale, Scale)
                  ELSE base
             ELSE base

\* r = [len, ma_nan, ad_rising, price_rising]
score_ad_line(r) ==
    IF r.len < 20 THEN 0
    ELSE IF r.ma_nan THEN 0
    ELSE IF r.ad_rising /\ r.price_rising THEN 5000
    ELSE IF ~r.ad_rising /\ ~r.price_rising THEN -5000
    ELSE IF r.ad_rising /\ ~r.price_rising THEN 7000
    ELSE -7000

\* r = [cmf], CMF in units of 1e-4
score_cmf(r) ==
    IF IsNaN(r.cmf) THEN 0
    ELSE _clamp(r.cmf * 2, -Scale, Scale)

\* ratio: [none |-> TRUE] or [none |-> FALSE, v |-> ratio in units of 1e-2, or NaN]
score_put_call_ratio(ratio) ==
    IF ratio.none THEN 0
    ELSE IF IsNaN(ratio.v) THEN 0
    ELSE IF ratio.v > 120 THEN _clamp((ratio.v - 120) * 125, -Scale, Scale)
    ELSE IF ratio.v < 50 THEN _clamp(0 - (50 - ratio.v) * 200, -Scale, Scale)
    ELSE 0

----------------------------------------------------------------------------
(* composite.py *)

EVALUATORS ==
    << "ma_crossover", "rsi", "macd", "bollinger", "mean_reversion", "trend",
       "volume", "adx", "stochastic", "ad_line", "cmf" >>

WEIGHTS ==
    [ name \in {EVALUATORS[i] : i \in 1..Len(EVALUATORS)} \cup {"put_call_ratio"} |->
        CASE name = "ma_crossover" -> 1000
          [] name = "rsi" -> 1000
          [] name = "macd" -> 1000
          [] name = "bollinger" -> 700
          [] name = "mean_reversion" -> 700
          [] name = "trend" -> 1200
          [] name = "volume" -> 800
          [] name = "adx" -> 1000
          [] name = "stochastic" -> 800
          [] name = "ad_line" -> 600
          [] name = "cmf" -> 700
          [] name = "put_call_ratio" -> 500 ]

\* _direction with its thresholds at +-0.25
DirectionLate(score) ==
    IF score >= 2500 * Scale THEN "buy"
    ELSE IF score <= 0 - 2500 * Scale THEN "sell"
    ELSE "hold"

\* score >= 0.2, score <= -0.2, on the composite in units of 1e-8
_direction(score) ==
    IF score >= 2000 * Scale THEN "buy"
    ELSE IF score <= 0 - 2000 * Scale THEN "sell"
    ELSE "hold"

_conviction(score) ==
    LET mag == Abs(score)
    IN  IF mag >= 6000 * Scale THEN "high"
        ELSE IF mag >= 3000 * Scale THEN "medium"
        ELSE "low"

\* int(x) where round(x) is meant
ConfidenceRounded(signals) ==
    IF signals = <<>> THEN 0
    ELSE LET directions == [i \in 1..Len(signals) |->
                              IF signals[i].score > 1000 THEN 1
                              ELSE IF signals[i].score < -1000 THEN -1 ELSE 0]
             non_neutral == SelectSeq(directions, LAMBDA d : d # 0)
             n == Len(non_neutral)
         IN  IF n = 0 THEN 20
             ELSE PyMin(100, RoundDiv(70 * Abs(SumSeq(non_neutral)) * Len(signals) + 30 * n * n,
                                      n * Len(signals)))

\* agreement * 70 + data_quality * 30 = (70 |sum| total + 30 n n) / (n total); int() truncates
_confidence(signals) ==
    IF signals = <<>> THEN 0
    ELSE LET directions == [i \in 1..Len(signals) |->
                              IF signals[i].score > 1000 THEN 1
                              ELSE IF signals[i].score < -1000 THEN -1 ELSE 0]
             non_neutral == SelectSeq(directions, LAMBDA d : d # 0)
             n == Len(non_neutral)
         IN  IF n = 0 THEN 20
             ELSE PyMin(100, FloorDiv(70 * Abs(SumSeq(non_neutral)) * Len(signals) + 30 * n * n,
                                      n * Len(signals)))

\* fn(*args) for one entry of the evaluators table
ScoreOf(name, rd) ==
    CASE name = "ma_crossover" -> score_ma_crossover(rd.ma_crossover)
      [] name = "rsi" -> score_rsi(rd.rsi)
      [] name = "macd" -> score_macd(rd.macd)
      [] name = "bollinger" -> score_bollinger([pct_b |-> bollinger_pct_b(rd.band)])
      [] name = "mean_reversion" -> score_mean_reversion(rd.band)
      [] name = "trend" -> score_trend(rd.trend)
      [] name = "volume" -> score_volume_trend(rd.volume)
      [] name = "adx" -> score_adx(rd.adx)
      [] name = "stochastic" -> score_stochastic(rd.stochastic)
      [] name = "ad_line" -> score_ad_line(rd.ad_line)
      [] name = "cmf" -> score_cmf(rd.cmf)

\* the loop body without its except clause: the exception leaves the loop
EvaluateNoExcept(name, rd) ==
    IF name \in rd.err THEN [raised |-> TRUE, score |-> 0]
    ELSE [raised |-> FALSE, score |-> ScoreOf(name, rd)]

\* try: score = fn(*args) / except Exception: score = 0.0
\* rd.err: the evaluators whose indicator computation raises on this DataFrame
Evaluate(name, rd) ==
    IF name \in rd.err THEN [raised |-> FALSE, score |-> 0]
    ELSE [raised |-> FALSE, score |-> ScoreOf(name, rd)]

\* the branch "if put_call_ratio is None" left out
RedistributeNever(signal_results, put_call_ratio) == signal_results

\* When put_call_ratio data is unavailable, redistribute its weight
Redistribute(signal_results, put_call_ratio) ==
    IF put_call_ratio.none
    THEN LET others == SelectSeq(signal_results, LAMBDA s : s.name # "put_call_ratio")
             other_weight_sum == SumSeq([i \in 1..Len(others) |-> others[i].weight])
         IN  IF other_weight_sum > 0
             THEN [i \in 1..Len(signal_results) |->
                     IF signal_results[i].name # "put_call_ratio"
                     THEN [signal_results[i] EXCEPT
                             !.weight = RoundDiv(signal_results[i].weight * Scale, other_weight_sum)]
                     ELSE [signal_results[i] EXCEPT !.weight = 0]]
             ELSE signal_results
    ELSE signal_results

\* return CompositeSignal(...): direction and conviction from the unrounded composite
MakeSignal(composite, signal_results) ==
    [ raised |-> FALSE,
      direction |-> _direction(composite),
      conviction |-> _conviction(composite),
      composite_score |-> RoundDiv(composite, Scale),
      confidence |-> _confidence(signal_results),
      signals |-> signal_results ]

Raised == [raised |-> TRUE]

compute_composite(rd, put_call_ratio) ==
    LET pc_score == score_put_call_ratio(put_call_ratio)
        evals == [i \in 1..Len(EVALUATORS) |-> Evaluate(EVALUATORS[i], rd)]
        scored == [i \in 1..Len(EVALUATORS) |->
                     [name |-> EVALUATORS[i], score |-> evals[i].score,
                      weight |-> WEIGHTS[EVALUATORS[i]]]]
        signal_results == Redistribute(
            Append(scored, [name |-> "put_call_ratio", score |-> pc_score,
                            weight |-> WEIGHTS["put_call_ratio"]]),
            put_call_ratio)
        weighted == SumSeq([i \in 1..Len(signal_results) |->
                              signal_results[i].score * signal_results[i].weight])
        composite == PyMax(0 - Scale * Scale, PyMin(Scale * Scale, weighted))
    IN  IF \E i \in 1..Len(EVALUATORS) : evals[i].raised THEN Raised
        ELSE MakeSignal(composite, signal_results)

----------------------------------------------------------------------------
(* compute_composite on indicator readings drawn from small sets *)

MaReadings ==
    { [fast_ma |-> NaN, slow_ma |-> NaN],              \* fewer than 50 bars
      [fast_ma |-> 127499, slow_ma |-> 125000],        \* gap 1.9992 %: score 0.9996
      [fast_ma |-> 9000, slow_ma |-> 10000] }          \* gap -10 %: clamped to -1
RsiReadings == { [value |-> NaN], [value |-> 1000], [value |-> 9500] }
MacdReadings ==
    { [hist |-> NaN, recent_range |-> 0],
      [hist |-> 900, recent_range |-> 300] }           \* clamped to 1
\* the 20-bar mean and std of the close, read by score_bollinger and score_mean_reversion
BandReadings ==
    { [ma |-> 10000, std |-> 0, close |-> 10000],      \* a flat window
      [ma |-> 10000, std |-> 100, close |-> 9700] }    \* 3 std below the mean
TrendReadings ==
    { [ema200_nan |-> TRUE, e20_gt_e50 |-> FALSE, e50_gt_e200 |-> FALSE, close_gt_e200 |-> FALSE],
      [ema200_nan |-> FALSE, e20_gt_e50 |-> TRUE, e50_gt_e200 |-> TRUE, close_gt_e200 |-> FALSE] }
VolumeReadings ==
    { [len |-> 10, obv_ma_nan_or_zero |-> TRUE, obv_deviation |-> 0, price_up |-> FALSE],
      [len |-> 60, obv_ma_nan_or_zero |-> FALSE, obv_deviation |-> -25000, price_up |-> FALSE] }
AdxReadings == { [adx |-> 1500, plus_gt_minus |-> TRUE], [adx |-> 3500, plus_gt_minus |-> FALSE] }
StochasticReadings ==
    { [len |-> 60, k |-> NaN, d |-> NaN, prev_k |-> NaN, prev_d |-> NaN],
      [len |-> 60, k |-> 500, d |-> 400, prev_k |-> 300, prev_d |-> 350] }
AdLineReadings ==
    { [len |-> 10, ma_nan |-> TRUE, ad_rising |-> FALSE, price_rising |-> FALSE],
      [len |-> 60, ma_nan |-> FALSE, ad_rising |-> TRUE, price_rising |-> FALSE] }
CmfReadings == { [cmf |-> NaN], [cmf |-> -8000] }
\* the evaluators whose indicator computation raises
ErrSets == { {}, {"rsi", "cmf"} }

PutCallRatios ==
    { [none |-> TRUE, v |-> 0], [none |-> FALSE, v |-> NaN],
      [none |-> FALSE, v |-> 80], [none |-> FALSE, v |-> 250] }

Readings ==
    [ ma_crossover : MaReadings, rsi : RsiReadings, macd : MacdReadings,
      band : BandReadings,
      trend : TrendReadings, volume : VolumeReadings, adx : AdxReadings,
      stochastic : StochasticReadings, ad_line : AdLineReadings, cmf : CmfReadings,
      err : ErrSets ]

InitComposite ==
    /\ cin \in [readings : Readings, put_call_ratio : PutCallRatios]
    /\ sig = NoSignal
    /\ IdleOutsideComposite

\* one call compute_composite(symbol, df, put_call_ratio)
ComputeComposite ==
    /\ sig = NoSignal
    /\ sig' = compute_composite(cin.readings, cin.put_call_ratio)
    /\ UNCHANGED <<cin, outsideComposite>>

NextComposite == ComputeComposite

SpecComposite == InitComposite /\ [][NextComposite]_vars

----------------------------------------------------------------------------
(* backtest.py on a market of daily bars.  A bar is [date, close, ind]: the date
   in days, the close in dollars, and ind, the bar's row of the indicator columns
   that technical.py derives from high, low, volume and the exponential averages
   (every one of them a rolling, cumulative or shifted quantity of the rows up to
   the bar).  The moving averages and the RSI are computed from the closes. *)

WARMUP_DAYS == 252
FORWARD_DAYS == 21
HORIZONS == <<1, 5, 21>>
HorizonIndex == 1..Len(HORIZONS)

\* if len(df_slice) < 50: continue
MinSliceLen == 50


\* the indicator columns at a bar
Columns(ind) ==
    CASE ind = "bull" ->
           [hist |-> 50, recent_range |-> 100, std |-> 200,
            e20_gt_e50 |-> TRUE, e50_gt_e200 |-> TRUE, close_gt_e200 |-> TRUE,
            obv_ma_nan_or_zero |-> FALSE, obv_deviation |-> 3000,
            adx |-> 3500, plus_gt_minus |-> TRUE, k |-> 8500, d |-> 8000,
            ad_ma_nan |-> FALSE, ad_rising |-> TRUE, cmf |-> 2000]
      [] ind = "bear" ->
           [hist |-> -80, recent_range |-> 100, std |-> 300,
            e20_gt_e50 |-> FALSE, e50_gt_e200 |-> FALSE, close_gt_e200 |-> FALSE,
            obv_ma_nan_or_zero |-> FALSE, obv_deviation |-> -4000,
            adx |-> 4100, plus_gt_minus |-> FALSE, k |-> 1500, d |-> 2500,
            ad_ma_nan |-> FALSE, ad_rising |-> FALSE, cmf |-> -3000]
      [] OTHER ->
           [hist |-> 0, recent_range |-> 0, std |-> 0,
            e20_gt_e50 |-> TRUE, e50_gt_e200 |-> FALSE, close_gt_e200 |-> FALSE,
            obv_ma_nan_or_zero |-> TRUE, obv_deviation |-> 0,
            adx |-> 1500, plus_gt_minus |-> TRUE, k |-> 5000, d |-> 5000,
            ad_ma_nan |-> FALSE, ad_rising |-> FALSE, cmf |-> 0]

\* what the evaluators of compute_composite read at .iloc[-1] and .iloc[-2] of df
IndicatorReadings(df) ==
    Only({
        LET n == Len(df)
            col == Columns(df[n].ind)
            prev == IF n >= 2 THEN Columns(df[n - 1].ind) ELSE col
            above_ma20 == ~IsNaN(ma20) /\ close[n] * 100 > ma20
        IN  [ ma_crossover |-> [fast_ma |-> ma20, slow_ma |-> sma(close, 50)],
              rsi |-> [value |-> rsi(close, 14)],
              macd |-> [hist |-> col.hist, recent_range |-> col.recent_range],
              band |-> [ma |-> ma20, std |-> col.std, close |-> close[n] * 100],
              trend |-> [ema200_nan |-> FALSE, e20_gt_e50 |-> col.e20_gt_e50,
                         e50_gt_e200 |-> col.e50_gt_e200, close_gt_e200 |-> col.close_gt_e200],
              volume |-> [len |-> n, obv_ma_nan_or_zero |-> col.obv_ma_nan_or_zero,
                          obv_deviation |-> col.obv_deviation, price_up |-> above_ma20],
              adx |-> [adx |-> col.adx, plus_gt_minus |-> col.plus_gt_minus],
              stochastic |-> [len |-> n, k |-> col.k, d |-> col.d,
                              prev_k |-> prev.k, prev_d |-> prev.d],
              ad_line |-> [len |-> n, ma_nan |-> col.ad_ma_nan \/ IsNaN(ma20),
                           ad_rising |-> col.ad_rising, price_rising |-> above_ma20],
              cmf |-> [cmf |-> col.cmf],
              err |-> {} ]
        : <<close, ma20>> \in
            { <<c, sma(c, 20)>> : c \in {AsList([i \in 1..Len(df) |-> df[i].close])} } })

\* the provider's rows with fetch_start <= date < fetch_end
_fetch_history(mkt, start, end) ==
    SelectSeq(mkt, LAMBDA bar :
        /\ bar.date >= start - FloorDiv(WARMUP_DAYS * 3, 2)
        /\ bar.date < end + FloorDiv(FORWARD_DAYS * 3, 2))

\* the return as a fraction, without "* 100"
ForwardReturnFraction(df, current_idx, horizon) ==
    LET target_idx == current_idx + horizon
    IN  IF target_idx >= Len(df) THEN None
        ELSE LET current_close == df[current_idx + 1].close
                 future_close == df[target_idx + 1].close
             IN  IF current_close = 0 THEN None
                 ELSE RoundDiv((future_close - current_close) * Scale, current_close)

\* the percentage return in units of 1e-4; current_idx counts from 0
_compute_forward_return(df, current_idx, horizon) ==
    LET target_idx == current_idx + horizon
    IN  IF target_idx >= Len(df) THEN None
        ELSE LET current_close == df[current_idx + 1].close
                 future_close == df[target_idx + 1].close
             IN  IF current_close = 0 THEN None
                 ELSE RoundDiv((future_close - current_close) * 100 * Scale, current_close)


\* the hit test with a flat day counted as a hit
IsHitOrFlat(s, r) == (s >= 0 /\ r >= 0) \/ (s <= 0 /\ r <= 0)

\* (s > 0 and r > 0) or (s < 0 and r < 0)
IsHit(s, r) == (s > 0 /\ r > 0) \/ (s < 0 /\ r < 0)

\* hit_rate in units of 1e-2 percent, avg_signal_return in units of 1e-4;
\* profit_factor is kept as the quotient pos_sum / neg_sum it is rounded from
_compute_horizon_metrics(scores, forward_returns) ==
    Only({
        LET total == Len(pairs)
            signal_returns == [i \in 1..total |-> pairs[i].s * pairs[i].r]
            hits == Cardinality({i \in 1..total : IsHit(pairs[i].s, pairs[i].r)})
            pos_sum == SumSeq([i \in 1..total |-> PyMax(signal_returns[i], 0)])
            neg_sum == Abs(SumSeq([i \in 1..total |-> PyMin(signal_returns[i], 0)]))
        IN  IF total = 0
            THEN [hit_rate |-> 0, avg_signal_return |-> 0, profit_factor |-> None,
                  total_signals |-> 0, wins |-> 0, losses |-> 0]
            ELSE [hit_rate |-> RoundDiv(hits * 100 * 100, total),
                  avg_signal_return |-> RoundDiv(SumSeq(signal_returns), total * Scale),
                  profit_factor |-> IF neg_sum > 0 THEN [num |-> pos_sum, den |-> neg_sum]
                                    ELSE None,
                  total_signals |-> total,
                  wins |-> Cardinality({i \in 1..total : signal_returns[i] > 0}),
                  losses |-> Cardinality({i \in 1..total : signal_returns[i] < 0})]
        : pairs \in
            { SelectSeq([i \in 1..Len(scores) |-> [s |-> scores[i], r |-> forward_returns[i]]],
                        LAMBDA p : p.r # None) } })

RECURSIVE DrawdownLoop(_, _, _, _)
\* the loop "for val in cumulative" from position i on
DrawdownLoop(cumulative, i, peak, max_dd) ==
    IF i > Len(cumulative) THEN max_dd
    ELSE LET new_peak == IF cumulative[i] > peak THEN cumulative[i] ELSE peak
             dd == new_peak - cumulative[i]
         IN  DrawdownLoop(cumulative, i + 1, new_peak, IF dd > max_dd THEN dd ELSE max_dd)

\* the largest drop below the first value only
MaxDrawdownFromStart(cumulative) ==
    Only({ IF Len(c) = 0 THEN 0
           ELSE c[1] - (CHOOSE v \in {c[j] : j \in 1..Len(c)} : \A j \in 1..Len(c) : v <= c[j])
           : c \in {AsList(cumulative)} })

_compute_max_drawdown(cumulative) ==
    Only({ IF Len(c) = 0 THEN 0 ELSE DrawdownLoop(c, 1, c[1], 0) : c \in {AsList(cumulative)} })

_compute_conviction_breakdown(daily_signals) ==
    [c \in {"low", "medium", "high"} |->
        Only({
            [ count |-> Len(signals),
              hit_rate |-> [h \in HorizonIndex |->
                  Only({ IF Len(valid) = 0 THEN 0
                         ELSE RoundDiv(Cardinality({i \in 1..Len(valid) :
                                           IsHit(valid[i].composite_score, valid[i].forward[h])})
                                       * 100 * 100, Len(valid))
                         : valid \in {SelectSeq(signals, LAMBDA ds : ds.forward[h] # None)} })],
              avg_return |-> [h \in HorizonIndex |->
                  Only({ IF Len(valid) = 0 THEN 0
                         ELSE RoundDiv(SumSeq([i \in 1..Len(valid) |->
                                                  valid[i].signal_return[h]]), Len(valid))
                         : valid \in {SelectSeq(signals, LAMBDA ds : ds.forward[h] # None)} })] ]
            : signals \in {SelectSeq(daily_signals, LAMBDA ds : ds.conviction = c)} })]

\* df.loc[:day] taken as the whole frame
DfSliceWhole(df, day) == df

\* df.loc[:day]
DfSlice(df, day) == SelectSeq(df, LAMBDA bar : bar.date <= day)

\* the body of "for day in trading_days" for the day at row p of df: the DailySignal
EvaluateDay(df, p) ==
    Only({
        [ date |-> df[p].date,
          composite_score |-> signal.composite_score,
          direction |-> signal.direction,
          conviction |-> signal.conviction,
          confidence |-> signal.confidence,
          forward |-> forwards,
          signal_return |-> AsList([h \in HorizonIndex |->
              IF forwards[h] # None THEN RoundDiv(signal.composite_score * forwards[h], Scale)
              ELSE None]) ]
        : signal \in {compute_composite(IndicatorReadings(DfSlice(df, df[p].date)), NoPutCall)},
          forwards \in {AsList([h \in HorizonIndex |->
                            _compute_forward_return(df, p - 1, HORIZONS[h])])} })

\* the BacktestResult built from the DailySignal list
Aggregate(daily_signals) ==
    LET all_scores == [k \in 1..Len(daily_signals) |-> daily_signals[k].composite_score]
        all_forwards(h) == [k \in 1..Len(daily_signals) |-> daily_signals[k].forward[h]]
        cum(h, k) == SumSeq([j \in 1..k |->
                        IF daily_signals[j].signal_return[h] # None
                        THEN daily_signals[j].signal_return[h] ELSE 0])
    IN  Only({
            [ raised |-> "",
              total_trading_days |-> Len(daily_signals),
              horizon |-> AsList([h \in HorizonIndex |->
                              _compute_horizon_metrics(all_scores, all_forwards(h))]),
              conviction_breakdown |-> _compute_conviction_breakdown(daily_signals),
              daily_signals |-> daily_signals,
              equity_curve |-> equity_curve,
              max_drawdown |-> AsList([h \in HorizonIndex |->
                  _compute_max_drawdown([k \in 1..Len(equity_curve) |->
                                            equity_curve[k].cum[h]])]) ]
            : equity_curve \in
                { AsList([k \in 1..Len(daily_signals) |->
                            [date |-> daily_signals[k].date,
                             cum |-> AsList([h \in HorizonIndex |-> cum(h, k)])]]) } })

\* the days of [start, end] in df whose slice has at least 50 bars, as rows of df
EvaluatedRows(df, start, end) ==
    SelectSeq([i \in 1..Len(df) |-> i], LAMBDA p :
        /\ df[p].date >= start /\ df[p].date <= end
        /\ ~(Len(DfSlice(df, df[p].date)) < MinSliceLen))

run_backtest(mkt, start, end) ==
    Only({
        IF Len(df) = 0 THEN [raised |-> "ValueError", daily_signals |-> <<>>]
        ELSE Only({ Aggregate(daily_signals) : daily_signals \in
                      { AsList([k \in 1..Len(evaluated) |-> EvaluateDay(df, evaluated[k])])
                        : evaluated \in {EvaluatedRows(df, start, end)} } })
        : df \in {_fetch_history(mkt, start, end)} })

----------------------------------------------------------------------------
(* routers/backtest.py *)

MAX_RANGE_DAYS == 730

\* the handler without its three checks of the dates
BacktestUnchecked(mkt, now, start, end) ==
    Only({ IF result.raised = "ValueError" THEN [status |-> 404, result |-> NoResult]
           ELSE [status |-> 200, result |-> result]
           : result \in {run_backtest(mkt, start, end)} })

\* GET /backtest/run: 400 before run_backtest is called, 404 on its ValueError
backtest(mkt, now, start, end) ==
    IF end > now THEN [status |-> 400, result |-> NoResult]
    ELSE IF start >= end THEN [status |-> 400, result |-> NoResult]
    ELSE IF end - start > MAX_RANGE_DAYS THEN [status |-> 400, result |-> NoResult]
    ELSE Only({ IF result.raised = "ValueError" THEN [status |-> 404, result |-> NoResult]
                ELSE [status |-> 200, result |-> result]
                : result \in {run_backtest(mkt, start, end)} })

----------------------------------------------------------------------------
(* The backtest endpoint on bounded markets *)

NBars == 75
FirstDate == 900
BaseClose == 1003

\* the date of the i-th bar: five trading days a week
Date(i) == FirstDate + (i - 1) + 2 * ((i - 1) \div 5)

\* the bars at which the close moves, and by how much
StepBars == <<51, 53, 60>>
Steps == {-1, 0, 1}
ClosePaths == [1..Len(StepBars) -> Steps]

\* the bar from which the indicator columns turn from "bull" to "bear", and a
\* quiet market
Regimes == {0, 56, 64, NBars + 1}

MarketOf(path, regime) ==
    [i \in 1..NBars |->
        [ date |-> Date(i),
          close |-> BaseClose + SumSeq([j \in 1..Len(StepBars) |->
                                          IF StepBars[j] <= i THEN path[j] ELSE 0]),
          ind |-> IF regime = 0 THEN "quiet"
                  ELSE IF i < regime THEN "bull" ELSE "bear" ]]

StartDates == {FirstDate - 800, FirstDate - 400, Date(30), Date(50), Date(62), Date(NBars) + 8}
EndDates == {FirstDate - 100, Date(30), Date(51), Date(55), Date(66), Date(NBars), Date(NBars) + 8}


InitBacktest ==
    /\ \E path \in ClosePaths, regime \in Regimes : market = MarketOf(path, regime)
    /\ today = Date(NBars)
    /\ req = NoRequest
    /\ resp = NoResponse
    /\ IdleOutsideBacktest

\* one request GET /backtest/run?start=...&end=...
BacktestRequest ==
    /\ resp = NoResponse
    /\ \E start \in StartDates, end \in EndDates :
          /\ req' = [start |-> start, end |-> end]
          /\ resp' = backtest(market, today, start, end)
    /\ UNCHANGED <<market, today, outsideBacktest>>

NextBacktest == BacktestRequest

SpecBacktest == InitBacktest /\ [][NextBacktest]_vars

----------------------------------------------------------------------------
(* elliott_wave.py: zigzag_pivots.  Prices are integers; the swing threshold
   min_swing = median(ATR) * 1.5 is kept exact in units of 1/SwingUnit of a price.
   Rows are counted from 0 as in the code: row i is high[i + 1]. *)

\* if n < 20: return []
ZigzagMinBars == 20
\* atr(high, low, close, period=14)
AtrPeriod == 14
\* the unit of min_swing: 1/period from the ATR, 1/2 from the median of an even
\* number of values, 1/2 from atr_threshold = 1.5
SwingUnit == AtrPeriod * 2 * 2

\* the k-th smallest member of the list values
KthSmallest(values, k) ==
    CHOOSE v \in {values[j] : j \in 1..Len(values)} :
        /\ Cardinality({j \in 1..Len(values) : values[j] < v}) < k
        /\ Cardinality({j \in 1..Len(values) : values[j] <= v}) >= k

\* twice the median of a list that is not empty
Median2(values) ==
    IF Len(values) % 2 = 1 THEN 2 * KthSmallest(values, (Len(values) + 1) \div 2)
    ELSE KthSmallest(values, Len(values) \div 2) + KthSmallest(values, Len(values) \div 2 + 1)

\* atr_series.dropna()
ValidAtr(high, low, close) == SelectSeq(atr(high, low, close, AtrPeriod), LAMBDA v : ~IsNaN(v))

\* float(valid_atr.median()) * atr_threshold, in units of 1/SwingUnit
MinSwing(valid_atr) == 3 * Median2(valid_atr)

Pivot(index, price, type) == [index |-> index, price |-> price, type |-> type]

\* the locals before the loop
ZigzagLocals(high, low) ==
    [ pivots |-> <<>>, direction |-> 0,
      last_high_idx |-> 0, last_high_val |-> high[1],
      last_low_idx |-> 0, last_low_val |-> low[1] ]

\* the loop body in which, once a direction is set, any bar that does not extend
\* the swing reverses it, whatever min_swing
ZigzagStepAnyPullback(z, i, h, l, min_swing) ==
    IF z.direction = 0
    THEN IF (h - z.last_low_val) * SwingUnit >= min_swing
         THEN [z EXCEPT !.pivots = Append(@, Pivot(z.last_low_idx, z.last_low_val, "low")),
                        !.direction = 1, !.last_high_idx = i, !.last_high_val = h]
         ELSE IF (z.last_high_val - l) * SwingUnit >= min_swing
         THEN [z EXCEPT !.pivots = Append(@, Pivot(z.last_high_idx, z.last_high_val, "high")),
                        !.direction = -1, !.last_low_idx = i, !.last_low_val = l]
         ELSE [z EXCEPT !.last_high_idx = IF h > z.last_high_val THEN i ELSE @,
                        !.last_high_val = IF h > z.last_high_val THEN h ELSE @,
                        !.last_low_idx = IF l < z.last_low_val THEN i ELSE @,
                        !.last_low_val = IF l < z.last_low_val THEN l ELSE @]
    ELSE IF z.direction = 1
    THEN IF h > z.last_high_val
         THEN [z EXCEPT !.last_high_idx = i, !.last_high_val = h]
         ELSE IF (z.last_high_val - l) * SwingUnit >= 0
         THEN [z EXCEPT !.pivots = Append(@, Pivot(z.last_high_idx, z.last_high_val, "high")),
                        !.direction = -1, !.last_low_idx = i, !.last_low_val = l]
         ELSE z
    ELSE IF l < z.last_low_val
         THEN [z EXCEPT !.last_low_idx = i, !.last_low_val = l]
         ELSE IF (h - z.last_low_val) * SwingUnit >= 0
         THEN [z EXCEPT !.pivots = Append(@, Pivot(z.last_low_idx, z.last_low_val, "low")),
                        !.direction = 1, !.last_high_idx = i, !.last_high_val = h]
         ELSE z

\* the loop body in which a reversal marks its pivot and keeps the direction
ZigzagStepNoFlip(z, i, h, l, min_swing) ==
    IF z.direction = 0
    THEN IF (h - z.last_low_val) * SwingUnit >= min_swing
         THEN [z EXCEPT !.pivots = Append(@, Pivot(z.last_low_idx, z.last_low_val, "low")),
                        !.direction = 1, !.last_high_idx = i, !.last_high_val = h]
         ELSE IF (z.last_high_val - l) * SwingUnit >= min_swing
         THEN [z EXCEPT !.pivots = Append(@, Pivot(z.last_high_idx, z.last_high_val, "high")),
                        !.direction = -1, !.last_low_idx = i, !.last_low_val = l]
         ELSE [z EXCEPT !.last_high_idx = IF h > z.last_high_val THEN i ELSE @,
                        !.last_high_val = IF h > z.last_high_val THEN h ELSE @,
                        !.last_low_idx = IF l < z.last_low_val THEN i ELSE @,
                        !.last_low_val = IF l < z.last_low_val THEN l ELSE @]
    ELSE IF z.direction = 1
    THEN IF h > z.last_high_val
         THEN [z EXCEPT !.last_high_idx = i, !.last_high_val = h]
         ELSE IF (z.last_high_val - l) * SwingUnit >= min_swing
         THEN [z EXCEPT !.pivots = Append(@, Pivot(z.last_high_idx, z.last_high_val, "high")),
                        !.last_low_idx = i, !.last_low_val = l]
         ELSE z
    ELSE IF l < z.last_low_val
         THEN [z EXCEPT !.last_low_idx = i, !.last_low_val = l]
         ELSE IF (h - z.last_low_val) * SwingUnit >= min_swing
         THEN [z EXCEPT !.pivots = Append(@, Pivot(z.last_low_idx, z.last_low_val, "low")),
                        !.last_high_idx = i, !.last_high_val = h]
         ELSE z

\* the body of "for i in range(1, n)" at row i with h = high.iloc[i], l = low.iloc[i]
ZigzagStep(z, i, h, l, min_swing) ==
    IF z.direction = 0
    THEN IF (h - z.last_low_val) * SwingUnit >= min_swing
         THEN [z EXCEPT !.pivots = Append(@, Pivot(z.last_low_idx, z.last_low_val, "low")),
                        !.direction = 1, !.last_high_idx = i, !.last_high_val = h]
         ELSE IF (z.last_high_val - l) * SwingUnit >= min_swing
         THEN [z EXCEPT !.pivots = Append(@, Pivot(z.last_high_idx, z.last_high_val, "high")),
                        !.direction = -1, !.last_low_idx = i, !.last_low_val = l]
         ELSE [z EXCEPT !.last_high_idx = IF h > z.last_high_val THEN i ELSE @,
                        !.last_high_val = IF h > z.last_high_val THEN h ELSE @,
                        !.last_low_idx = IF l < z.last_low_val THEN i ELSE @,
                        !.last_low_val = IF l < z.last_low_val THEN l ELSE @]
    ELSE IF z.direction = 1
    THEN IF h > z.last_high_val
         THEN [z EXCEPT !.last_high_idx = i, !.last_high_val = h]
         ELSE IF (z.last_high_val - l) * SwingUnit >= min_swing
         THEN [z EXCEPT !.pivots = Append(@, Pivot(z.last_high_idx, z.last_high_val, "high")),
                        !.direction = -1, !.last_low_idx = i, !.last_low_val = l]
         ELSE z
    ELSE IF l < z.last_low_val
         THEN [z EXCEPT !.last_low_idx = i, !.last_low_val = l]
         ELSE IF (h - z.last_low_val) * SwingUnit >= min_swing
         THEN [z EXCEPT !.pivots = Append(@, Pivot(z.last_low_idx, z.last_low_val, "low")),
                        !.direction = 1, !.last_high_idx = i, !.last_high_val = h]
         ELSE z

\* the return without the final pending pivot
ZigzagResultNoPending(z) == z.pivots

\* "Append the final pending pivot" and return pivots
ZigzagResult(z) ==
    IF z.direction = 1
    THEN Append(z.pivots, Pivot(z.last_high_idx, z.last_high_val, "high"))
    ELSE IF z.direction = -1
    THEN Append(z.pivots, Pivot(z.last_low_idx, z.last_low_val, "low"))
    ELSE z.pivots

RECURSIVE ZigzagLoop(_, _, _, _, _, _)
\* the loop over the rows i .. stop - 1: the first half of them, then the rest
ZigzagLoop(z, i, stop, high, low, min_swing) ==
    IF i >= stop THEN z
    ELSE IF i + 1 = stop THEN ZigzagStep(z, i, high[i + 1], low[i + 1], min_swing)
    ELSE Only({ ZigzagLoop(half, (i + stop) \div 2, stop, high, low, min_swing)
                : half \in {ZigzagLoop(z, i, (i + stop) \div 2, high, low, min_swing)} })

zigzag_pivots(high, low, close) ==
    IF Len(close) < ZigzagMinBars THEN <<>>
    ELSE Only({ IF Len(valid_atr) = 0 THEN <<>>
                ELSE ZigzagResult(ZigzagLoop(ZigzagLocals(high, low), 1, Len(high), high, low,
                                             MinSwing(valid_atr)))
                : valid_atr \in {ValidAtr(high, low, close)} })

----------------------------------------------------------------------------
(* elliott_wave.py: Fibonacci validation and the wave templates.  A ratio of two
   amplitudes is kept as the pair [num, den]; band limits and confidences are in
   units of 1e-3, the score of one ratio in units of 1e-6. *)

Micro == 1000000

_FIB_RATIOS ==
    [ wave2_retrace |-> <<382, 618>>, wave3_extension |-> <<1272, 2618>>,
      wave4_retrace |-> <<236, 500>>, wave5_extension |-> <<618, 1618>> ]

\* m / d in units of 1e-6 for 0 <= m < d, divided in two steps of three digits
MicroQuotient(m, d) == ((m * 1000) \div d) * 1000 + RoundDiv(((m * 1000) % d) * 1000, d)

\* 1.0 inside the band and 0.0 outside it
RatioScoreStep(actual, low_bound, high_bound) ==
    IF low_bound * actual.den <= 1000 * actual.num /\ 1000 * actual.num <= high_bound * actual.den
    THEN Micro ELSE 0

\* actual = num / den with den > 0; the bounds in units of 1e-3
_ratio_score(actual, low_bound, high_bound) ==
    IF low_bound * actual.den <= 1000 * actual.num /\ 1000 * actual.num <= high_bound * actual.den
    THEN Micro
    ELSE LET range_width == high_bound - low_bound
             miss_num == IF 1000 * actual.num < low_bound * actual.den
                         THEN low_bound * actual.den - 1000 * actual.num
                         ELSE 1000 * actual.num - high_bound * actual.den
             miss_den == range_width * actual.den
         IN  IF range_width = 0 THEN 0
             ELSE IF miss_num >= miss_den THEN 0
             ELSE Micro - MicroQuotient(miss_num, miss_den)

\* the ratios validate_fibonacci_ratios looks at, in its order: those with a
\* non-zero denominator
FibRatios(p) ==
    LET wave1 == Abs(p[2] - p[1])
        wave2_retrace == Abs(p[3] - p[2])
        wave3 == Abs(p[4] - p[3])
        wave4_retrace == Abs(p[5] - p[4])
        wave5 == Abs(p[6] - p[5])
    IN  (IF wave1 # 0 THEN <<[name |-> "wave2_retrace", num |-> wave2_retrace, den |-> wave1]>>
         ELSE <<>>)
        \o (IF wave1 # 0 THEN <<[name |-> "wave3_extension", num |-> wave3, den |-> wave1]>>
            ELSE <<>>)
        \o (IF wave3 # 0 THEN <<[name |-> "wave4_retrace", num |-> wave4_retrace, den |-> wave3]>>
            ELSE <<>>)
        \o (IF wave1 # 0 THEN <<[name |-> "wave5_extension", num |-> wave5, den |-> wave1]>>
            ELSE <<>>)

\* {"confidence": ..., "details": {name: {"actual": ..., "score": ...}}}
validate_fibonacci_ratios(pivots) ==
    IF Len(pivots) < 6 THEN [confidence |-> 0, details |-> <<>>]
    ELSE Only({
            [ confidence |->
                  IF Len(scores) = 0 THEN 0
                  ELSE RoundDiv(SumSeq([i \in 1..Len(scores) |-> scores[i].s]),
                                Len(scores) * 1000),
              details |-> [i \in 1..Len(scores) |->
                  [name |-> scores[i].name,
                   actual |-> RoundDiv(scores[i].num * 1000, scores[i].den),
                   score |-> RoundDiv(scores[i].s, 1000)]] ]
            : scores \in
                { AsList([i \in 1..Len(ratios) |->
                      [name |-> ratios[i].name, num |-> ratios[i].num, den |-> ratios[i].den,
                       s |-> _ratio_score(ratios[i], _FIB_RATIOS[ratios[i].name][1],
                                          _FIB_RATIOS[ratios[i].name][2])]])
                  : ratios \in {FibRatios([i \in 1..6 |-> pivots[i].price])} } })

\* types = [p["type"] for p in pivots[:k]]
TypesOf(pivots, k) == [i \in 1..k |-> pivots[i].type]

\* _is_impulse_up without the rule on wave 4
IsImpulseUpAnyWave4(pivots) ==
    IF Len(pivots) < 6 THEN FALSE
    ELSE IF TypesOf(pivots, 6) # <<"low", "high", "low", "high", "low", "high">> THEN FALSE
    ELSE LET w1 == pivots[2].price - pivots[1].price
             w3 == pivots[4].price - pivots[3].price
             w5 == pivots[6].price - pivots[5].price
         IN  IF w3 < w1 /\ w3 < w5 THEN FALSE
             ELSE TRUE

_is_impulse_up(pivots) ==
    IF Len(pivots) < 6 THEN FALSE
    ELSE IF TypesOf(pivots, 6) # <<"low", "high", "low", "high", "low", "high">> THEN FALSE
    ELSE LET w1 == pivots[2].price - pivots[1].price
             w3 == pivots[4].price - pivots[3].price
             w5 == pivots[6].price - pivots[5].price
         IN  IF w3 < w1 /\ w3 < w5 THEN FALSE
             ELSE IF pivots[5].price < pivots[2].price THEN FALSE
             ELSE TRUE

_is_impulse_down(pivots) ==
    IF Len(pivots) < 6 THEN FALSE
    ELSE IF TypesOf(pivots, 6) # <<"high", "low", "high", "low", "high", "low">> THEN FALSE
    ELSE LET w1 == pivots[1].price - pivots[2].price
             w3 == pivots[3].price - pivots[4].price
             w5 == pivots[5].price - pivots[6].price
         IN  IF w3 < w1 /\ w3 < w5 THEN FALSE
             ELSE IF pivots[5].price > pivots[2].price THEN FALSE
             ELSE TRUE

_is_corrective_up(pivots) ==
    IF Len(pivots) < 4 THEN FALSE
    ELSE TypesOf(pivots, 4) = <<"low", "high", "low", "high">>

_is_corrective_down(pivots) ==
    IF Len(pivots) < 4 THEN FALSE
    ELSE TypesOf(pivots, 4) = <<"high", "low", "high", "low">>

----------------------------------------------------------------------------
(* elliott_wave.py: detect_waves and score_elliott_wave.  The result keeps
   pattern, current_wave, wave_pivots and confidence (units of 1e-3). *)

MinWaveBars == 50
Lookback == 200
CorrectiveConfidence == 400
MinConfidence == 150

_IMPULSE_LABELS == <<"1", "2", "3", "4", "5">>
_CORRECTIVE_LABELS == <<"A", "B", "C">>

Unclear == [pattern |-> "unclear", current_wave |-> "1", wave_pivots |-> <<>>, confidence |-> 0]

NoBest == [pattern |-> "unclear", confidence |-> 0, pivots |-> <<>>]

\* pivots[offset:offset + size]
Segment(pivots, offset, size) == SubSeq(pivots, offset + 1, PyMin(offset + size, Len(pivots)))

\* a candidate replaces the best so far also when it only equals it
TakeIfNotWorse(best, pattern, conf, segment) ==
    IF conf >= best.confidence
    THEN [pattern |-> pattern, confidence |-> conf, pivots |-> segment]
    ELSE best

\* if conf > best_confidence: best_confidence, best_pattern, best_pivots = ...
TakeIfBetter(best, pattern, conf, segment) ==
    IF conf > best.confidence
    THEN [pattern |-> pattern, confidence |-> conf, pivots |-> segment]
    ELSE best

\* the body of the impulse loop on one segment
ImpulseStep(best, segment) ==
    IF Len(segment) < 6 THEN best
    ELSE IF _is_impulse_up(segment)
    THEN TakeIfBetter(best, "impulse_up", validate_fibonacci_ratios(segment).confidence, segment)
    ELSE IF _is_impulse_down(segment)
    THEN TakeIfBetter(best, "impulse_down", validate_fibonacci_ratios(segment).confidence, segment)
    ELSE best

\* the body of the corrective loop on one segment
CorrectiveStep(best, segment) ==
    IF Len(segment) < 4 THEN best
    ELSE IF _is_corrective_up(segment)
    THEN TakeIfBetter(best, "corrective_up", CorrectiveConfidence, segment)
    ELSE IF _is_corrective_down(segment)
    THEN TakeIfBetter(best, "corrective_down", CorrectiveConfidence, segment)
    ELSE best

\* for offset in range(offset, stop), impulse segments
RECURSIVE ImpulseLoop(_, _, _, _)
ImpulseLoop(best, pivots, offset, stop) ==
    IF offset >= stop THEN best
    ELSE Only({ ImpulseLoop(b, pivots, offset + 1, stop)
                : b \in {ImpulseStep(best, Segment(pivots, offset, 6))} })

\* for offset in range(offset, stop), corrective segments
RECURSIVE CorrectiveLoop(_, _, _, _)
CorrectiveLoop(best, pivots, offset, stop) ==
    IF offset >= stop THEN best
    ELSE Only({ CorrectiveLoop(b, pivots, offset + 1, stop)
                : b \in {CorrectiveStep(best, Segment(pivots, offset, 4))} })

\* the search for a corrective that stops one window short of the last four pivots
BestCandidateShortOfLast(pivots) ==
    Only({ CorrectiveLoop(b, pivots, PyMax(0, Len(pivots) - 6), PyMax(0, Len(pivots) - 4))
           : b \in {ImpulseLoop(NoBest, pivots, PyMax(0, Len(pivots) - 8),
                                PyMax(0, Len(pivots) - 5))} })

\* both loops, impulse first
BestCandidate(pivots) ==
    Only({ CorrectiveLoop(b, pivots, PyMax(0, Len(pivots) - 6), PyMax(0, Len(pivots) - 3))
           : b \in {ImpulseLoop(NoBest, pivots, PyMax(0, Len(pivots) - 8),
                                PyMax(0, Len(pivots) - 5))} })

\* label = labels[i] if i < len(labels) else str(i), i from 0
LabelAt(labels, i) == IF i < Len(labels) THEN labels[i + 1] ELSE ToString(i)

\* the pivots of the best segment with their wave labels and their index in
\* the whole series
LabelPivots(best, start) ==
    LET labels == IF best.pattern \in {"impulse_up", "impulse_down"} THEN _IMPULSE_LABELS
                  ELSE <<"start">> \o _CORRECTIVE_LABELS
        count == IF best.pattern \in {"impulse_up", "impulse_down"}
                 THEN PyMin(Len(best.pivots), 6)
                 ELSE PyMin(Len(best.pivots), 4)
    IN  IF best.pattern = "unclear" THEN <<>>
        ELSE [i \in 1..count |->
                 [index |-> best.pivots[i].index + start,
                  price |-> best.pivots[i].price,
                  type |-> best.pivots[i].type,
                  wave_label |-> LabelAt(labels, i - 1)]]

\* a complete impulse of six pivots counts as the first wave of the next one
DetermineCurrentWaveRestarts(pivots, total_bars, pattern) ==
    IF Len(pivots) = 0 THEN "1"
    ELSE IF pattern \in {"impulse_up", "impulse_down"}
    THEN <<"1", "2", "3", "4", "5", "1">>[PyMin(Len(pivots), 6)]
    ELSE IF pattern \in {"corrective_up", "corrective_down"}
    THEN <<"A", "B", "C", "C">>[PyMin(Len(pivots), 4)]
    ELSE "1"

_determine_current_wave(pivots, total_bars, pattern) ==
    IF Len(pivots) = 0 THEN "1"
    ELSE IF pattern \in {"impulse_up", "impulse_down"}
    THEN <<"1", "2", "3", "4", "5", "5">>[PyMin(Len(pivots), 6)]
    ELSE IF pattern \in {"corrective_up", "corrective_down"}
    THEN <<"A", "B", "C", "C">>[PyMin(Len(pivots), 4)]
    ELSE "1"

\* detect_waves from the pivots of the last lookback bars on
WavesOf(pivots, n, start) ==
    IF Len(pivots) < 4 THEN Unclear
    ELSE Only({ [ pattern |-> best.pattern,
                  current_wave |-> _determine_current_wave(best.pivots, n, best.pattern),
                  wave_pivots |-> LabelPivots(best, start),
                  confidence |-> PyMin(best.confidence, 1000) ]
                : best \in {BestCandidate(pivots)} })

\* s.iloc[start:].reset_index(drop=True)
Recent(s, start) == SubSeq(s, start + 1, Len(s))

detect_waves(high, low, close) ==
    IF Len(close) < MinWaveBars THEN Unclear
    ELSE LET start == PyMax(0, Len(close) - Lookback)
         IN  Only({ WavesOf(pivots, Len(close), start)
                    : pivots \in {zigzag_pivots(Recent(high, start), Recent(low, start),
                                                Recent(close, start))} })

\* the score that always takes the wave 5 rate for an impulse
ScoreOfWaveFlat(pattern, current, confidence) ==
    IF pattern = "unclear" \/ confidence < MinConfidence THEN 0
    ELSE IF pattern = "impulse_up" THEN _clamp(2 * confidence, 0 - Scale, Scale)
    ELSE IF pattern = "impulse_down" THEN _clamp(0 - 2 * confidence, 0 - Scale, Scale)
    ELSE IF pattern = "corrective_up" THEN _clamp(2 * confidence, 0 - Scale, Scale)
    ELSE IF pattern = "corrective_down" THEN _clamp(0 - 2 * confidence, 0 - Scale, Scale)
    ELSE 0

\* score_elliott_wave after detect_waves: the score (units of 1e-4) of a
\* pattern, the current wave and the confidence (units of 1e-3); _clamp with
\* its default limits -1.0 and 1.0
ScoreOfWave(pattern, current, confidence) ==
    IF pattern = "unclear" \/ confidence < MinConfidence THEN 0
    ELSE IF pattern = "impulse_up"
    THEN IF current \in {"1", "3"} THEN _clamp(5000 + 5 * confidence, 0 - Scale, Scale)
         ELSE IF current = "5" THEN _clamp(2 * confidence, 0 - Scale, Scale)
         ELSE IF current \in {"2", "4"} THEN _clamp(3 * confidence, 0 - Scale, Scale)
         ELSE 0
    ELSE IF pattern = "impulse_down"
    THEN IF current \in {"1", "3"} THEN _clamp(0 - (5000 + 5 * confidence), 0 - Scale, Scale)
         ELSE IF current = "5" THEN _clamp(0 - 2 * confidence, 0 - Scale, Scale)
         ELSE IF current \in {"2", "4"} THEN _clamp(0 - 3 * confidence, 0 - Scale, Scale)
         ELSE 0
    ELSE IF pattern = "corrective_up" THEN _clamp(3 * confidence, 0 - Scale, Scale)
    ELSE IF pattern = "corrective_down" THEN _clamp(0 - 3 * confidence, 0 - Scale, Scale)
    ELSE 0

score_elliott_wave(high, low, close) ==
    IF Len(close) < MinWaveBars THEN 0
    ELSE Only({ ScoreOfWave(wv.pattern, wv.current_wave, wv.confidence)
                : wv \in {detect_waves(high, low, close)} })

----------------------------------------------------------------------------
(* risk.py.  Prices in units of 1e-3 (a tenth of a cent), so that rounding to 2
   decimals is a rounding; portfolio_value in units of 10,000; risk_pct in
   units of 1e-7; composite_score in units of 1e-4; risk_reward, position_size
   and position_pct in units of 1e-2. *)

RiskMultiplier == 2
RiskAtrPeriod == 14

\* round(num / den, 2) of a price, in units of 1e-3: a multiple of 10
RoundCents(num, den) == 10 * RoundDiv(num, den * 10)

\* every direction other than buy gets the stop of a sell
AtrStopLossElseSell(high, low, close, direction, multiplier, period) ==
    Only({ IF IsNaN(atr_val[Len(atr_val)]) THEN None
           ELSE IF direction = "buy"
           THEN RoundCents(period * close[Len(close)] - multiplier * atr_val[Len(atr_val)],
                           period)
           ELSE RoundCents(period * close[Len(close)] + multiplier * atr_val[Len(atr_val)],
                           period)
           : atr_val \in {atr(high, low, close, period)} })

atr_stop_loss(high, low, close, direction, multiplier, period) ==
    Only({ IF IsNaN(atr_val[Len(atr_val)]) THEN None
           ELSE IF direction = "buy"
           THEN RoundCents(period * close[Len(close)] - multiplier * atr_val[Len(atr_val)],
                           period)
           ELSE IF direction = "sell"
           THEN RoundCents(period * close[Len(close)] + multiplier * atr_val[Len(atr_val)],
                           period)
           ELSE None
           : atr_val \in {atr(high, low, close, period)} })

\* position_size_from_risk at the default risk_pct of 2%
PositionSizeAtDefault(portfolio_value, entry_price, stop_price, risk_pct) ==
    LET risk_per_share == Abs(entry_price - stop_price)
    IN  IF risk_per_share = 0 THEN [num |-> 0, den |-> 1]
        ELSE [num |-> portfolio_value * 200000, den |-> risk_per_share]

\* the number of shares as the quotient num / den
position_size_from_risk(portfolio_value, entry_price, stop_price, risk_pct) ==
    LET risk_per_share == Abs(entry_price - stop_price)
    IN  IF risk_per_share = 0 THEN [num |-> 0, den |-> 1]
        ELSE [num |-> portfolio_value * risk_pct, den |-> risk_per_share]

risk_reward_ratio(entry, stop, target) ==
    LET risk == Abs(entry - stop)
        reward == Abs(target - entry)
    IN  IF risk = 0 THEN None
        ELSE RoundDiv(reward * 100, risk)

NullContext ==
    [ stop_loss |-> None, target_price |-> None, risk_reward |-> None,
      position_size |-> 0, position_pct |-> 0 ]

\* position_value / portfolio_value * 100 for position_value = shares * price,
\* 0.0 for a portfolio_value of 0
PositionPct(shares, current_price, portfolio_value) ==
    IF portfolio_value = 0 THEN 0
    ELSE RoundDiv((shares.num \div portfolio_value) * current_price, shares.den * 1000)

compute_risk_context(df, direction, composite_score, portfolio_value) ==
    LET current_price == df.close[Len(df.close)]
    IN  Only({
          IF stop = None THEN NullContext
          ELSE LET risk_distance == Abs(current_price - stop)
                   target == IF direction = "buy"
                             THEN RoundCents(current_price + 2 * risk_distance, 1)
                             ELSE IF direction = "sell"
                             THEN RoundCents(current_price - 2 * risk_distance, 1)
                             ELSE current_price
                   conviction_scale == PyMin(Abs(composite_score), Scale)
                   risk_pct == 50000 + conviction_scale * 15
                   shares == position_size_from_risk(portfolio_value, current_price, stop,
                                                     risk_pct)
               IN  [ stop_loss |-> stop,
                     target_price |-> target,
                     risk_reward |-> risk_reward_ratio(current_price, stop, target),
                     position_size |-> RoundDiv(shares.num * 100, shares.den),
                     position_pct |-> PositionPct(shares, current_price, portfolio_value) ]
          : stop \in {atr_stop_loss(df.high, df.low, df.close, direction,
                                    RiskMultiplier, RiskAtrPeriod)} })

----------------------------------------------------------------------------
(* zigzag_pivots, one loop iteration at a time, on series made of segments *)

SegLen == 5
NSegments == 4
StartPrice == 100

\* what the close does in a segment, bar by bar, and how far high and low lie from it
\* ("still": high = low = close, the same on every bar)
SegmentKinds == {"up", "down", "flat", "wide", "still"}
Drift(kind) == IF kind = "up" THEN 2 ELSE IF kind = "down" THEN -2 ELSE 0
Reach(kind) == IF kind = "wide" THEN 6 ELSE IF kind = "still" THEN 0 ELSE 1

\* the lists of NSegments - 1 and of NSegments kinds
SegmentPlans == UNION {[1..k -> SegmentKinds] : k \in {NSegments - 1, NSegments}}

KindAt(plan, i) == plan[(i - 1) \div SegLen + 1]

RECURSIVE CloseAt(_, _)
CloseAt(plan, i) ==
    IF i = 0 THEN StartPrice ELSE CloseAt(plan, i - 1) + Drift(KindAt(plan, i))

SeriesOf(plan) ==
    Only({ [ high |-> [i \in 1..Len(c) |-> c[i] + Reach(KindAt(plan, i))],
             low |-> [i \in 1..Len(c) |-> c[i] - Reach(KindAt(plan, i))],
             close |-> c ]
           : c \in {AsList([i \in 1..Len(plan) * SegLen |-> CloseAt(plan, i)])} })

InitZigzag ==
    /\ \E plan \in SegmentPlans : series = SeriesOf(plan)
    /\ zz = NoCall
    /\ IdleOutsideZigzag

\* lines 46-64: the early returns, min_swing and the locals
ZigzagEnter ==
    /\ zz.pc = "idle"
    /\ zz' = IF Len(series.close) < ZigzagMinBars
             THEN [pc |-> "done", pivots |-> <<>>]
             ELSE Only({ IF Len(valid_atr) = 0 THEN [pc |-> "done", pivots |-> <<>>]
                         ELSE [pc |-> "loop", i |-> 1, min_swing |-> MinSwing(valid_atr),
                               z |-> ZigzagLocals(series.high, series.low)]
                         : valid_atr \in {ValidAtr(series.high, series.low, series.close)} })
    /\ UNCHANGED <<series, outsideZigzag>>

\* one iteration of the loop
ZigzagIterate ==
    /\ zz.pc = "loop"
    /\ zz.i < Len(series.close)
    /\ zz' = [zz EXCEPT !.z = ZigzagStep(zz.z, zz.i, series.high[zz.i + 1],
                                         series.low[zz.i + 1], zz.min_swing),
                        !.i = zz.i + 1]
    /\ UNCHANGED <<series, outsideZigzag>>

\* lines 115-121: the pending pivot and the return
ZigzagReturn ==
    /\ zz.pc = "loop"
    /\ zz.i >= Len(series.close)
    /\ zz' = [pc |-> "done", pivots |-> ZigzagResult(zz.z)]
    /\ UNCHANGED <<series, outsideZigzag>>

NextZigzag == ZigzagEnter \/ ZigzagIterate \/ ZigzagReturn

SpecZigzag == InitZigzag /\ [][NextZigzag]_vars

----------------------------------------------------------------------------
(* Claims about compute_composite, under SpecComposite *)

Returned == sig # NoSignal
ReturnedSignal == Returned /\ ~sig.raised

EntryOf(name) == CHOOSE i \in 1..Len(sig.signals) : sig.signals[i].name = name
OtherWeights ==
    SumSeq([i \in 1..Len(sig.signals) |->
              IF sig.signals[i].name # "put_call_ratio" THEN sig.signals[i].weight ELSE 0])

\* the scorers outside the +-0.1 dead-zone, by sign
Bullish == {i \in 1..Len(sig.signals) : sig.signals[i].score > 1000}
Bearish == {i \in 1..Len(sig.signals) : sig.signals[i].score < -1000}
NonNeutral == Cardinality(Bullish) + Cardinality(Bearish)
NetDirection == Abs(Cardinality(Bullish) - Cardinality(Bearish))

\* C2: whatever the readings and the put/call ratio, the composite score and all 12
\* per-strategy scores lie in [-1, 1] and the confidence is an integer in [0, 100]
C2_Ranges ==
    ReturnedSignal =>
        /\ sig.composite_score \in (0 - Scale)..Scale
        /\ Len(sig.signals) = 12
        /\ \A i \in 1..Len(sig.signals) : sig.signals[i].score \in (0 - Scale)..Scale
        /\ sig.confidence \in 0..100

\* readings beyond the scorers' ranges on both sides, clamped in the result
C2_Witness ==
    /\ ReturnedSignal
    /\ cin.readings.ma_crossover.fast_ma = 9000
    /\ ~cin.put_call_ratio.none /\ cin.put_call_ratio.v = 250
    /\ sig.signals[1].score = 0 - Scale
    /\ sig.signals[12].score = Scale

\* test_composite_without_put_call_ratio: abs(other_weights - 1.0) < 0.01
WeightSumTolerance == 100

\* C3 as claimed: with put_call_ratio None the put/call entry has score 0 and weight 0 and
\* the other eleven weights sum to 1.0; they are multiples of 1e-4, so any floating-point
\* tolerance means the sum is exactly 1.0000
C3_SumExactlyOne ==
    (ReturnedSignal /\ cin.put_call_ratio.none) =>
        /\ sig.signals[EntryOf("put_call_ratio")].score = 0
        /\ sig.signals[EntryOf("put_call_ratio")].weight = 0
        /\ OtherWeights = Scale

\* C3 amended: with put_call_ratio None the put/call entry has score 0 and weight exactly 0
\* and the other eleven weights, each rounded to 4 decimals, sum to 1.0 within 0.01
C3_SumWithinTolerance ==
    (ReturnedSignal /\ cin.put_call_ratio.none) =>
        /\ sig.signals[EntryOf("put_call_ratio")].score = 0
        /\ sig.signals[EntryOf("put_call_ratio")].weight = 0
        /\ Abs(OtherWeights - Scale) < WeightSumTolerance

C3_Witness ==
    /\ ReturnedSignal /\ cin.put_call_ratio.none
    /\ sig.signals[EntryOf("put_call_ratio")].weight = 0
    /\ sig.signals[EntryOf("trend")].weight = 1263
    /\ OtherWeights = 10002

\* C4 as claimed: confidence = min(100, round(agreement * 70 + data_quality * 30)),
\* and 20 when every scorer is neutral
C4_ConfidenceRounds ==
    ReturnedSignal =>
        sig.confidence =
            IF NonNeutral = 0 THEN 20
            ELSE PyMin(100, RoundDiv(70 * NetDirection * Len(sig.signals)
                                       + 30 * NonNeutral * NonNeutral,
                                     NonNeutral * Len(sig.signals)))

\* C4 amended: confidence = min(100, floor(agreement * 70 + data_quality * 30)),
\* and 20 when every scorer is neutral
C4_ConfidenceTruncates ==
    ReturnedSignal =>
        sig.confidence =
            IF NonNeutral = 0 THEN 20
            ELSE PyMin(100, FloorDiv(70 * NetDirection * Len(sig.signals)
                                       + 30 * NonNeutral * NonNeutral,
                                     NonNeutral * Len(sig.signals)))

\* three scorers outside the dead-zone, all agreeing: 70 + 7.5 is reported as 77
C4_Witness ==
    /\ ReturnedSignal
    /\ NonNeutral = 3 /\ NetDirection = 3
    /\ sig.confidence = 77

\* C5 as claimed: direction and conviction are the threshold rules applied to the returned
\* composite_score
C5_ThresholdsOnReturnedScore ==
    ReturnedSignal =>
        /\ (sig.direction = "buy") <=> (sig.composite_score >= 2000)
        /\ (sig.direction = "sell") <=> (sig.composite_score <= -2000)
        /\ (sig.direction = "hold") <=> (sig.composite_score \in -1999..1999)
        /\ (sig.conviction = "high") <=> (Abs(sig.composite_score) >= 6000)
        /\ (sig.conviction = "medium") <=> (Abs(sig.composite_score) \in 3000..5999)
        /\ (sig.conviction = "low") <=> (Abs(sig.composite_score) < 3000)

\* C5 amended: the thresholds are applied to the composite before it is rounded to 4
\* decimals, so the rules hold of the returned composite_score except where it equals a
\* threshold (+-0.2, +-0.3, +-0.6), where either side may be reported
C5_ThresholdsOffBoundary ==
    ReturnedSignal =>
        /\ sig.direction \in {"buy", "sell", "hold"}
        /\ sig.conviction \in {"high", "medium", "low"}
        /\ sig.composite_score > 2000 => sig.direction = "buy"
        /\ sig.composite_score < 2000 => sig.direction # "buy"
        /\ sig.composite_score < -2000 => sig.direction = "sell"
        /\ sig.composite_score > -2000 => sig.direction # "sell"
        /\ Abs(sig.composite_score) > 6000 => sig.conviction = "high"
        /\ Abs(sig.composite_score) < 6000 => sig.conviction # "high"
        /\ Abs(sig.composite_score) > 3000 => sig.conviction # "low"
        /\ Abs(sig.composite_score) < 3000 => sig.conviction = "low"

\* a composite of 0.19996 is returned as 0.2 with direction hold
C5_Witness ==
    /\ ReturnedSignal
    /\ sig.composite_score = 2000
    /\ sig.direction = "hold"

\* C6: a scorer that raises gets score 0.0, every other scorer is still evaluated, and a
\* CompositeSignal with all 12 entries is returned: no scorer failure reaches the caller
C6_FailureIsolation ==
    Returned =>
        /\ ~sig.raised
        /\ Len(sig.signals) = 12
        /\ sig.signals[12].name = "put_call_ratio"
        /\ \A i \in 1..Len(EVALUATORS) :
              /\ sig.signals[i].name = EVALUATORS[i]
              /\ EVALUATORS[i] \in cin.readings.err => sig.signals[i].score = 0
              /\ EVALUATORS[i] \notin cin.readings.err =>
                    sig.signals[i].score = ScoreOf(EVALUATORS[i], cin.readings)

\* two scorers raise, another still reports its score
C6_Witness ==
    /\ ReturnedSignal
    /\ cin.readings.err = {"rsi", "cmf"}
    /\ sig.signals[EntryOf("rsi")].score = 0
    /\ sig.signals[EntryOf("adx")].score # 0


----------------------------------------------------------------------------
(* Claims about the backtest, under SpecBacktest *)

Answered == resp.status = 200
DailySignals == resp.result.daily_signals
\* the frame run_backtest worked on
Fetched == _fetch_history(market, req.start, req.end)
\* the row of df dated day, counted from 1
RowOf(df, day) == CHOOSE p \in 1..Len(df) : df[p].date = day
\* df with every bar after day deleted
BarsUpTo(df, day) == SelectSeq(df, LAMBDA bar : bar.date <= day)
SignalFields(ds) == <<ds.composite_score, ds.direction, ds.conviction, ds.confidence>>

\* C1: for every evaluated day d of a backtest, the recorded composite_score,
\* direction, conviction and confidence are those obtained by deleting every bar
\* after d from the fetched series and evaluating d again.
C1_NoLookahead ==
    Answered =>
        \A k \in 1..Len(DailySignals) :
            LET cut == BarsUpTo(Fetched, DailySignals[k].date)
            IN  SignalFields(DailySignals[k]) = SignalFields(EvaluateDay(cut, Len(cut)))

\* C1 witness: a backtest recorded a day that has later bars in the fetched series,
\* and the composite computed on the whole series differs from the one recorded.
C1_Witness ==
    /\ Answered
    /\ \E k \in 1..Len(DailySignals) :
          /\ RowOf(Fetched, DailySignals[k].date) < Len(Fetched)
          /\ SignalFields(compute_composite(IndicatorReadings(Fetched), NoPutCall))
                # SignalFields(DailySignals[k])

\* days of the backtest with a forward return at horizon h
Graded(h) == {k \in 1..Len(DailySignals) : DailySignals[k].forward[h] # None}
\* days on which score and forward return are both > 0 or both < 0
Matching(h) ==
    {k \in Graded(h) :
        \/ DailySignals[k].composite_score > 0 /\ DailySignals[k].forward[h] > 0
        \/ DailySignals[k].composite_score < 0 /\ DailySignals[k].forward[h] < 0}
\* days on which neither the score nor the forward return is exactly 0
NonZero(h) ==
    {k \in Graded(h) : DailySignals[k].composite_score # 0 /\ DailySignals[k].forward[h] # 0}
Percent2(part, whole) ==
    IF whole = {} THEN 0 ELSE RoundDiv(Cardinality(part) * 100 * 100, Cardinality(whole))

\* C7 as stated: hit_rate is the percentage of matching days among the days on
\* which neither composite_score nor forward_return is exactly 0.
C7_ZeroDaysLeftOut ==
    Answered =>
        \A h \in HorizonIndex : resp.result.horizon[h].hit_rate = Percent2(Matching(h), NonZero(h))

\* C7 amended: hit_rate is the percentage, rounded to 2 decimals, of the days with
\* a defined forward return on which composite_score and forward_return are both
\* > 0 or both < 0; a day with an exact 0 is not a hit and stays in the denominator.
C7_ZeroDaysCounted ==
    Answered =>
        \A h \in HorizonIndex :
            /\ resp.result.horizon[h].hit_rate = Percent2(Matching(h), Graded(h))
            /\ resp.result.horizon[h].total_signals = Cardinality(Graded(h))

\* C7 witness: a horizon with a hit and with a day whose forward return is exactly
\* 0 under a non-zero score, so that the two denominators differ.
C7_Witness ==
    /\ Answered
    /\ \E h \in HorizonIndex :
          /\ Matching(h) # {}
          /\ \E k \in Graded(h) :
                DailySignals[k].forward[h] = 0 /\ DailySignals[k].composite_score # 0
          /\ resp.result.horizon[h].hit_rate # Percent2(Matching(h), NonZero(h))

\* C8: for every evaluated day at row p of the unsliced series and every horizon h,
\* the forward return is null when p + h is past the end and otherwise is
\* (close[p+h] - close[p]) / close[p] * 100 to the 4 decimals kept; signal_return
\* is null with it and otherwise composite_score * forward_return to 4 decimals.
C8_ForwardReturns ==
    Answered =>
        LET df == Fetched
        IN  \A k \in 1..Len(DailySignals) : \A h \in HorizonIndex :
            LET ds == DailySignals[k]
                p == RowOf(df, ds.date)
                target == p + HORIZONS[h]
            IN  IF target > Len(df)
                THEN ds.forward[h] = None /\ ds.signal_return[h] = None
                ELSE /\ df[p].close > 0
                     /\ ds.forward[h] # None
                     /\ 2 * Abs(ds.forward[h] * df[p].close
                                - (df[target].close - df[p].close) * 100 * Scale)
                           <= df[p].close
                     /\ ds.signal_return[h] # None
                     /\ 2 * Abs(ds.signal_return[h] * Scale - ds.composite_score * ds.forward[h])
                           <= Scale

\* C8 witness: a recorded day whose 1-day return is not 0 and not a whole number of
\* 1e-4 percent, with a signal return, and whose 21-day horizon runs past the end.
C8_Witness ==
    /\ Answered
    /\ \E k \in 1..Len(DailySignals) :
          LET ds == DailySignals[k]
              p == RowOf(Fetched, ds.date)
          IN  /\ ds.forward[1] # None /\ ds.forward[1] # 0
              /\ ds.forward[1] * Fetched[p].close
                    # (Fetched[p + 1].close - Fetched[p].close) * 100 * Scale
              /\ ds.signal_return[1] # None /\ ds.signal_return[1] # 0
              /\ p + HORIZONS[3] > Len(Fetched)
              /\ ds.forward[3] = None

\* C9: a request with end < start, with end in the future, or with a range of more
\* than 730 days is answered with the input error 400 and no day is evaluated.
C9_Rejects ==
    (/\ resp # NoResponse
     /\ \/ req.end < req.start
        \/ req.end > today
        \/ req.end - req.start > MAX_RANGE_DAYS)
    => (resp.status = 400 /\ resp.result = NoResult /\ Len(DailySignals) = 0)

\* C9 witness: a rejected request whose only fault is its span of more than 730
\* days, over a market that has bars inside the range.
C9_Witness ==
    /\ resp.status = 400
    /\ req.start < req.end /\ req.end <= today
    /\ req.end - req.start > MAX_RANGE_DAYS
    /\ \E i \in 1..Len(market) : market[i].date >= req.start /\ market[i].date <= req.end

----------------------------------------------------------------------------
(* Claims about zigzag_pivots, under SpecZigzag *)

ZigzagReturned == zz.pc = "done"

\* C10: the list returned by zigzag_pivots has strictly increasing index and
\* alternating kind: no two adjacent pivots are both "high" or both "low", the
\* trailing pending pivot included.
C10_OrderedAlternating ==
    ZigzagReturned =>
        /\ zz.pivots = zigzag_pivots(series.high, series.low, series.close)
        /\ \A k \in 1..Len(zz.pivots) - 1 :
              /\ zz.pivots[k].index < zz.pivots[k + 1].index
              /\ zz.pivots[k].type # zz.pivots[k + 1].type

\* C10 witness: a returned list of at least four pivots that begins with a high,
\* the last of them the pending pivot at the last bar.
C10_Witness ==
    /\ ZigzagReturned
    /\ Len(zz.pivots) >= 4
    /\ zz.pivots[1].type = "high"
    /\ zz.pivots[Len(zz.pivots)].index = Len(series.close) - 1

\* the swing threshold zigzag_pivots derives from the series, in units of 1/SwingUnit
SeriesMinSwing == MinSwing(ValidAtr(series.high, series.low, series.close))

\* a bar after pivot pv whose opposite extreme lies at least min_swing from pv.price
ConfirmedBy(pv, min_swing) ==
    \E j \in (pv.index + 1)..(Len(series.close) - 1) :
        IF pv.type = "high" THEN (pv.price - series.low[j + 1]) * SwingUnit >= min_swing
        ELSE (series.high[j + 1] - pv.price) * SwingUnit >= min_swing

\* C11 as stated: every pivot of the returned list is followed by a bar whose
\* opposite extreme is at least min_swing = median(ATR-14) * 1.5 from its price.
C11_EveryPivotConfirmed ==
    (ZigzagReturned /\ Len(zz.pivots) > 0) =>
        \A k \in 1..Len(zz.pivots) : ConfirmedBy(zz.pivots[k], SeriesMinSwing)

\* C11 amended: every pivot of the returned list but the last is followed by such
\* a bar; the last one is the pending extreme of the swing under way, appended
\* without confirmation, and no later bar confirms it.
C11_AllButPendingConfirmed ==
    (ZigzagReturned /\ Len(zz.pivots) > 0) =>
        /\ \A k \in 1..Len(zz.pivots) - 1 : ConfirmedBy(zz.pivots[k], SeriesMinSwing)
        /\ ~ConfirmedBy(zz.pivots[Len(zz.pivots)], SeriesMinSwing)

\* C11 witness: a returned list of three or more pivots whose pending pivot has
\* bars after it.
C11_Witness ==
    /\ ZigzagReturned
    /\ Len(zz.pivots) >= 3
    /\ zz.pivots[Len(zz.pivots)].index < Len(series.close) - 1
    /\ ConfirmedBy(zz.pivots[1], SeriesMinSwing)

----------------------------------------------------------------------------
(* The wave templates and validate_fibonacci_ratios on bounded pivot windows:
   a window is laid out from a first price and five wave amplitudes *)

BasePrice == 1000

Wave1Amplitudes == {0, 100, 150}
Wave2Amplitudes == {30, 50, 90}
Wave3Amplitudes == {40, 100, 160}
Wave4Amplitudes == {60, 120}
Wave5Amplitudes == {30, 100, 200}
WindowLengths == {5, 6}
WindowKinds == {"alternating", "repeated"}

\* the price of pivot k (from 1) of a window that starts one way ("up": low first)
WindowPrice(way, amp, k) ==
    LET rise == SumSeq([i \in 1..(k - 1) |-> IF i % 2 = 1 THEN amp[i] ELSE 0 - amp[i]])
    IN  IF way = "up" THEN BasePrice + rise ELSE BasePrice - rise

\* the type of pivot k: alternating from the first, or with the third repeated
WindowType(way, kind, k) ==
    LET odd == IF way = "up" THEN "low" ELSE "high"
        even == IF way = "up" THEN "high" ELSE "low"
    IN  IF kind = "repeated" /\ k = 4 THEN odd
        ELSE IF k % 2 = 1 THEN odd ELSE even

Window(way, kind, amp, len) ==
    [k \in 1..len |-> Pivot(3 * k, WindowPrice(way, amp, k), WindowType(way, kind, k))]

Windows ==
    { Window(way, kind, <<a1, a2, a3, a4, a5>>, len) :
        way \in {"up", "down"}, kind \in WindowKinds, len \in WindowLengths,
        a1 \in Wave1Amplitudes, a2 \in Wave2Amplitudes, a3 \in Wave3Amplitudes,
        a4 \in Wave4Amplitudes, a5 \in Wave5Amplitudes }

InitWindow ==
    /\ pivs \in Windows
    /\ verdict = NoCall
    /\ IdleOutsideWindow

\* _is_impulse_up(pivots) and _is_impulse_down(pivots)
MatchImpulse ==
    /\ verdict.pc = "idle"
    /\ verdict' = [pc |-> "impulse", up |-> _is_impulse_up(pivs), down |-> _is_impulse_down(pivs)]
    /\ UNCHANGED <<pivs, outsideWindow>>

\* validate_fibonacci_ratios(pivots)
ValidateFibonacci ==
    /\ verdict.pc = "idle"
    /\ verdict' = [pc |-> "fib", fib |-> validate_fibonacci_ratios(pivs)]
    /\ UNCHANGED <<pivs, outsideWindow>>

NextWindow == MatchImpulse \/ ValidateFibonacci

SpecWindow == InitWindow /\ [][NextWindow]_vars

----------------------------------------------------------------------------
(* Claims about the impulse templates *)

ImpulseMatched == verdict.pc = "impulse"

KindsInOrder(first, second) ==
    /\ Len(pivs) >= 6
    /\ \A k \in 1..6 : pivs[k].type = (IF k % 2 = 1 THEN first ELSE second)

\* the amplitude of the wave that ends at pivot k (from 1)
Amplitude(k) == Abs(pivs[k].price - pivs[k - 1].price)

Wave3NotSmallest == ~(Amplitude(4) < Amplitude(2) /\ Amplitude(4) < Amplitude(6))

\* C12: a window is accepted as an impulse only if its six kinds alternate in
\* the impulse order (low first for the upward one, high first for the downward
\* one), wave 3 is not strictly smaller than both wave 1 and wave 5, and the
\* end of wave 4 is not beyond the end of wave 1 (upward: not below it,
\* downward: not above it); a window of fewer than six pivots is never accepted
C12_ImpulseRules ==
    ImpulseMatched =>
        /\ verdict.up =>
              /\ KindsInOrder("low", "high")
              /\ Wave3NotSmallest
              /\ pivs[5].price >= pivs[2].price
        /\ verdict.down =>
              /\ KindsInOrder("high", "low")
              /\ Wave3NotSmallest
              /\ pivs[5].price <= pivs[2].price

\* an accepted upward window: wave 4 ends at or above the end of wave 1 and
\* wave 3 is the largest of the three
C12_Witness ==
    /\ ImpulseMatched
    /\ verdict.up
    /\ pivs[5].price >= pivs[2].price
    /\ Amplitude(4) > Amplitude(2)
    /\ Amplitude(4) > Amplitude(6)

----------------------------------------------------------------------------
(* Claims about validate_fibonacci_ratios *)

FibValidated == verdict.pc = "fib"

\* the four ratios of a six-pivot window as [name, num, den], a zero denominator
\* included
FourRatios ==
    << [name |-> "wave2_retrace", num |-> Amplitude(3), den |-> Amplitude(2)],
       [name |-> "wave3_extension", num |-> Amplitude(4), den |-> Amplitude(2)],
       [name |-> "wave4_retrace", num |-> Amplitude(5), den |-> Amplitude(4)],
       [name |-> "wave5_extension", num |-> Amplitude(6), den |-> Amplitude(2)] >>

Band(name) ==
    CASE name = "wave2_retrace" -> [lo |-> 382, hi |-> 618]
      [] name = "wave3_extension" -> [lo |-> 1272, hi |-> 2618]
      [] name = "wave4_retrace" -> [lo |-> 236, hi |-> 500]
      [] name = "wave5_extension" -> [lo |-> 618, hi |-> 1618]

InBand(r) ==
    /\ Band(r.name).lo * r.den <= 1000 * r.num
    /\ 1000 * r.num <= Band(r.name).hi * r.den

\* how far the ratio misses its band, and the width of the band, both in units
\* of 1 / (1000 * den)
MissBy(r) ==
    IF 1000 * r.num < Band(r.name).lo * r.den THEN Band(r.name).lo * r.den - 1000 * r.num
    ELSE IF 1000 * r.num > Band(r.name).hi * r.den THEN 1000 * r.num - Band(r.name).hi * r.den
    ELSE 0
BandWidth(r) == (Band(r.name).hi - Band(r.name).lo) * r.den

\* the reported score (3 decimals) is 1 - miss / width, not below 0, to the
\* rounding of the report
ScoredLinearly(d, r) ==
    /\ d.name = r.name
    /\ 2 * Abs(d.score * BandWidth(r) - 1000 * PyMax(0, BandWidth(r) - MissBy(r))) <= BandWidth(r)
    /\ InBand(r) => d.score = 1000
    /\ MissBy(r) >= BandWidth(r) => d.score = 0

Defined(ratios) == SelectSeq(ratios, LAMBDA r : r.den # 0)

\* C14: fewer than six pivots give confidence 0.0 and no details; six pivots
\* give one detail per ratio with a non-zero denominator, scored 1.0 inside its
\* band and 1 - miss / width (at least 0) outside it; confidence is the mean of
\* these scores (0.0 when there is none), lies in [0, 1], and is 1.0, so above
\* 0.5, when all four ratios are inside their bands
C14_FibonacciConfidence ==
    FibValidated =>
        IF Len(pivs) < 6 THEN verdict.fib = [confidence |-> 0, details |-> <<>>]
        ELSE LET scored == Defined(FourRatios)
                 details == verdict.fib.details
                 confidence == verdict.fib.confidence
             IN  /\ Len(details) = Len(scored)
                 /\ \A i \in 1..Len(scored) : ScoredLinearly(details[i], scored[i])
                 /\ Abs(Len(details) * confidence
                        - SumSeq([i \in 1..Len(details) |-> details[i].score])) <= Len(details)
                 /\ confidence >= 0 /\ confidence <= 1000
                 /\ (Len(scored) = 4 /\ \A i \in 1..4 : InBand(scored[i])) => confidence > 500

\* six pivots with all four ratios scored: one inside its band, one part of the
\* way down the slope and one a full band-width or more away
C14_Witness ==
    /\ FibValidated
    /\ Len(pivs) = 6
    /\ Len(verdict.fib.details) = 4
    /\ \E i, j, k \in 1..4 :
          /\ InBand(FourRatios[i]) /\ verdict.fib.details[i].score = 1000
          /\ verdict.fib.details[j].score > 0 /\ verdict.fib.details[j].score < 1000
          /\ MissBy(FourRatios[k]) >= BandWidth(FourRatios[k]) /\ verdict.fib.details[k].score = 0

----------------------------------------------------------------------------
(* detect_waves and score_elliott_wave on bounded series: the close runs
   through legs of LegBars bars, up and down in turn, each with its own step per
   bar; high and low equal the close *)

LegBars == 5
NLegs == 10
ShortLegs == 7
FixedLegs == 4
WaveStartPrice == 500
FixedStep == 2
LegSteps == {1, 2, 3}

\* the plans of one length: the step of each leg, all but the first FixedLegs
\* of them free
LegPlans(count) ==
    { plan \in [1..count -> LegSteps \cup {FixedStep}] :
        \A k \in 1..PyMin(count, FixedLegs) : plan[k] = FixedStep }

\* the legs turn at every leg end, beginning upwards or downwards, or they never
\* turn ("rise"), or they turn at the ends of the first two legs only ("settle")
Ways == {"up", "down", "rise", "settle"}

\* +1 on the legs that rise, -1 on those that fall
LegSign(way, k) ==
    IF way = "rise" THEN 1
    ELSE IF way = "settle" THEN (IF k = 2 THEN -1 ELSE 1)
    ELSE IF (k % 2 = 1) = (way = "up") THEN 1 ELSE -1

\* the close where leg k ends (leg 0: the first close)
TurnPrice(way, plan, k) ==
    WaveStartPrice + SumSeq([m \in 1..k |-> LegSign(way, m) * plan[m] * LegBars])

\* the close of bar i (from 0)
LegClose(way, plan, i) ==
    IF i = 0 THEN WaveStartPrice
    ELSE LET k == ((i - 1) \div LegBars) + 1
         IN  TurnPrice(way, plan, k - 1) + LegSign(way, k) * plan[k] * (i - (k - 1) * LegBars)

BarsOf(way, plan) ==
    Only({ [high |-> c, low |-> c, close |-> c]
           : c \in {AsList([i \in 1..(Len(plan) * LegBars + 1) |-> LegClose(way, plan, i - 1)])} })

InitWaves ==
    /\ \E way \in Ways, count \in {ShortLegs, NLegs} :
          \E plan \in LegPlans(count) : bars = BarsOf(way, plan)
    /\ wave = NoCall
    /\ ew = NoCall
    /\ IdleOutsideWaves

\* detect_waves(high, low, close)
DetectWaves ==
    /\ wave.pc = "idle"
    /\ wave' = [pc |-> "done", result |-> detect_waves(bars.high, bars.low, bars.close)]
    /\ UNCHANGED <<bars, ew, outsideWaves>>

\* score_elliott_wave(high, low, close)
ScoreElliottWave ==
    /\ ew.pc = "idle"
    /\ ew' = [pc |-> "done", score |-> score_elliott_wave(bars.high, bars.low, bars.close)]
    /\ UNCHANGED <<bars, wave, outsideWaves>>

NextWaves == DetectWaves \/ ScoreElliottWave

SpecWaves == InitWaves /\ [][NextWaves]_vars

----------------------------------------------------------------------------
(* Claims about detect_waves *)

WavesDetected == wave.pc = "done"

\* the pivots detect_waves works on
WavePivots ==
    LET start == PyMax(0, Len(bars.close) - Lookback)
    IN  zigzag_pivots(Recent(bars.high, start), Recent(bars.low, start), Recent(bars.close, start))

\* the windows of one size that end at one of the last three pivots, oldest first
RecentWindows(pivots, size) ==
    LET first == PyMax(0, Len(pivots) - size - 2)
        count == PyMax(0, PyMin(3, Len(pivots) - size + 1))
    IN  [k \in 1..count |-> SubSeq(pivots, first + k, first + k + size - 1)]

\* a window as a candidate: its pattern ("none" when no template matches) and
\* its confidence
ImpulseCandidate(w) ==
    [ pattern |-> IF _is_impulse_up(w) THEN "impulse_up"
                  ELSE IF _is_impulse_down(w) THEN "impulse_down" ELSE "none",
      confidence |-> validate_fibonacci_ratios(w).confidence,
      pivots |-> w ]
CorrectiveCandidate(w) ==
    [ pattern |-> IF _is_corrective_up(w) THEN "corrective_up"
                  ELSE IF _is_corrective_down(w) THEN "corrective_down" ELSE "none",
      confidence |-> 400,
      pivots |-> w ]

\* the matching candidates in the order of examination
Candidates(pivots) ==
    LET imp == RecentWindows(pivots, 6)
        cor == RecentWindows(pivots, 4)
    IN  SelectSeq([k \in 1..Len(imp) |-> ImpulseCandidate(imp[k])]
                  \o [k \in 1..Len(cor) |-> CorrectiveCandidate(cor[k])],
                  LAMBDA c : c.pattern # "none")

\* the result reports candidate c
Reports(result, c) ==
    /\ result.pattern = c.pattern
    /\ result.confidence = c.confidence
    /\ Len(result.wave_pivots) = Len(c.pivots)
    /\ \A i \in 1..Len(c.pivots) :
          /\ result.wave_pivots[i].price = c.pivots[i].price
          /\ result.wave_pivots[i].type = c.pivots[i].type
          /\ result.wave_pivots[i].index
                = c.pivots[i].index + PyMax(0, Len(bars.close) - Lookback)

\* C13: with 50 bars or more and 4 pivots or more, detect_waves reports the
\* first, in the order of examination (the three latest 6-pivot windows oldest
\* first, then the three latest 4-pivot windows oldest first), of the matching
\* candidates whose confidence is the highest; a corrective one counts 0.4
C13_BestOfCandidates ==
    (WavesDetected /\ Len(bars.close) >= MinWaveBars) =>
        LET pivots == WavePivots
            cands == Candidates(pivots)
            result == wave.result
        IN  Len(pivots) >= 4 =>
               \E k \in 1..Len(cands) :
                  /\ \A j \in 1..Len(cands) : cands[j].confidence <= cands[k].confidence
                  /\ \A j \in 1..(k - 1) : cands[j].confidence < cands[k].confidence
                  /\ Reports(result, cands[k])

\* two matching impulse windows and three matching corrective ones, the later
\* impulse above 0.4 and above the earlier one: it is the one reported
C13_Witness ==
    /\ WavesDetected
    /\ Len(bars.close) >= MinWaveBars
    /\ LET cands == Candidates(WavePivots)
       IN  /\ Len(cands) = 5
           /\ cands[1].confidence < cands[2].confidence
           /\ cands[2].confidence > 400
           /\ Reports(wave.result, cands[2])

----------------------------------------------------------------------------
(* Claims about score_elliott_wave *)

WaveScored == ew.pc = "done"

WavePatterns == {"impulse_up", "impulse_down", "corrective_up", "corrective_down", "unclear"}
ImpulseWaves == {"1", "2", "3", "4", "5"}
CorrectiveWaves == {"A", "B", "C"}
SomeConfidences == {0, 149, 150, 400, 667, 1000}

\* the size of the score (units of 1e-4) for a confidence c (units of 1e-3)
ClaimedSize(pattern, current, c) ==
    IF pattern \in {"impulse_up", "impulse_down"}
    THEN CASE current \in {"1", "3"} -> 5000 + 5 * c
           [] current = "5" -> 2 * c
           [] current \in {"2", "4"} -> 3 * c
    ELSE 3 * c

ClaimedScore(pattern, current, c) ==
    IF pattern = "unclear" \/ c < 150 THEN 0
    ELSE IF pattern \in {"impulse_up", "corrective_up"} THEN ClaimedSize(pattern, current, c)
    ELSE 0 - ClaimedSize(pattern, current, c)

----------------------------------------------------------------------------
(* Claims about the drawdown of the backtest, under SpecBacktest *)

\* the running sum of signal_return at horizon h over the first k evaluated
\* days, a day without one adding nothing
Cumulative(h, k) ==
    SumSeq([j \in 1..k |-> IF DailySignals[j].signal_return[h] = None THEN 0
                           ELSE DailySignals[j].signal_return[h]])

CumulativeSeries(h) == AsList([k \in 1..Len(DailySignals) |-> Cumulative(h, k)])

\* the largest c[i] - c[j] over i <= j, 0 for an empty series
LargestDrop(c) ==
    IF Len(c) = 0 THEN 0
    ELSE CHOOSE d \in {c[i] - c[j] : i, j \in 1..Len(c)} :
            /\ \E i, j \in 1..Len(c) : i <= j /\ d = c[i] - c[j]
            /\ \A i, j \in 1..Len(c) : i <= j => c[i] - c[j] <= d

NonDecreasing(c) == \A i \in 1..(Len(c) - 1) : c[i] <= c[i + 1]

\* C19: at each horizon the equity curve is the running sum of signal_return
\* over the evaluated days, unchanged on a day without a forward return, and
\* the max drawdown is the largest c[i] - c[j] over i <= j of that series; it
\* is >= 0, and 0 for an empty or non-decreasing series
C19_MaxDrawdown ==
    Answered =>
        \A h \in HorizonIndex :
            LET c == CumulativeSeries(h)
                curve == resp.result.equity_curve
                max_dd == resp.result.max_drawdown[h]
            IN  /\ Len(curve) = Len(c)
                /\ \A k \in 1..Len(c) : curve[k].cum[h] = c[k]
                /\ \A k \in 2..Len(c) :
                      DailySignals[k].forward[h] = None => c[k] = c[k - 1]
                /\ max_dd = LargestDrop(c)
                /\ max_dd >= 0
                /\ NonDecreasing(c) => max_dd = 0

\* a horizon whose series rises above its first value and falls from there,
\* by more than it ever falls below the first value, and ends on days without a
\* forward return
C19_Witness ==
    /\ Answered
    /\ \E h \in HorizonIndex :
          LET c == CumulativeSeries(h)
          IN  /\ Len(c) >= 3
              /\ resp.result.max_drawdown[h] > 0
              /\ \E i, j \in 1..Len(c) :
                    /\ i < j /\ c[i] > c[1]
                    /\ c[i] - c[j] = resp.result.max_drawdown[h]
              /\ \A j \in 1..Len(c) : c[1] - c[j] < resp.result.max_drawdown[h]
              /\ DailySignals[Len(c)].forward[h] = None

----------------------------------------------------------------------------
(* compute_risk_context on bounded calls: a series that closes every day at
   the same price, with one daily range on the early bars and another on the
   last bar; the direction is the one the callers derive from the score *)

RiskBasePrice == 2000
RiskLongBars == 15
RiskShortBars == 13
SubCents == {0, 1, 4, 5, 6}
DailyRanges == {0, 1, 2, 30, 100}
LastRanges == {0, 3, 100}
RiskScores == {-10000, -5000, 0, 1500, 2000, 6000}
PortfolioValues == {0, 5, 10}

\* routers: "buy" from 0.2 up, "sell" from -0.2 down
DirectionOf(score) ==
    IF score >= 2000 THEN "buy" ELSE IF score <= -2000 THEN "sell" ELSE "hold"

\* the high above the close by half the range (rounded up), the low below it
\* by the rest
RiskSeries(len, close, early, last) ==
    LET range(i) == IF i = len THEN last ELSE early
    IN  [ high |-> [i \in 1..len |-> close + range(i) - range(i) \div 2],
          low |-> [i \in 1..len |-> close - range(i) \div 2],
          close |-> [i \in 1..len |-> close] ]

InitRisk ==
    /\ \E len \in {RiskShortBars, RiskLongBars}, sub \in SubCents, early \in DailyRanges,
          last \in LastRanges, score \in RiskScores, value \in PortfolioValues :
          rin = [ df |-> RiskSeries(len, RiskBasePrice + sub, early, last),
                  direction |-> DirectionOf(score),
                  composite_score |-> score,
                  portfolio_value |-> value ]
    /\ ctx = NoCall
    /\ IdleOutsideRisk

\* compute_risk_context(df, direction, composite_score, portfolio_value)
ComputeRiskContext ==
    /\ ctx.pc = "idle"
    /\ ctx' = [pc |-> "done",
               result |-> compute_risk_context(rin.df, rin.direction, rin.composite_score,
                                               rin.portfolio_value)]
    /\ UNCHANGED <<rin, outsideRisk>>

NextRisk == ComputeRiskContext

SpecRisk == InitRisk /\ [][NextRisk]_vars

----------------------------------------------------------------------------
(* Claims about the risk context, under SpecRisk *)

RiskComputed == ctx.pc = "done"

LastClose == rin.df.close[Len(rin.df.close)]
\* 14 times ATR(14) at the last bar, or NaN
LastAtr14 == atr(rin.df.high, rin.df.low, rin.df.close, 14)[Len(rin.df.close)]
AtrDefined == ~IsNaN(LastAtr14)

\* stop is price -/+ 2 * ATR to within half a cent (sign -1 for buy, +1 for sell)
StopAtTwoAtr(stop, sign) ==
    /\ stop # None
    /\ Abs(14 * stop - (14 * LastClose + sign * 2 * LastAtr14)) <= 14 * 5

\* C16: without an ATR(14) at the last bar the result is the null
\* context; with one, the stop of a buy is close - 2 * ATR and is not above
\* the close, the stop of a sell is close + 2 * ATR and is not below the close
C16_StopBeyondClose ==
    RiskComputed =>
        /\ ~AtrDefined => ctx.result = NullContext
        /\ (AtrDefined /\ rin.direction = "buy") =>
              StopAtTwoAtr(ctx.result.stop_loss, -1) /\ ctx.result.stop_loss <= LastClose
        /\ (AtrDefined /\ rin.direction = "sell") =>
              StopAtTwoAtr(ctx.result.stop_loss, 1) /\ ctx.result.stop_loss >= LastClose

\* C16, the failing case: a buy on a close that is not a whole number of cents,
\* with an ATR above 0 and under a quarter of a cent; the stop is above the close
C16_Witness ==
    /\ RiskComputed
    /\ AtrDefined
    /\ rin.direction = "buy"
    /\ LastClose % 10 # 0
    /\ LastAtr14 > 0
    /\ ctx.result.stop_loss > LastClose

ContextDefined == ctx.result # NullContext
\* |entry - stop|
RiskDistance == Abs(LastClose - ctx.result.stop_loss)

\* C17: whenever the context is defined, risk_reward is None exactly when
\* the risk distance |entry - stop| is 0, and otherwise it is at least 2 and the
\* target lies on the profit side of the current price (above it for a buy,
\* below it for a sell)
C17_MinimumTwoToOne ==
    (RiskComputed /\ ContextDefined) =>
        /\ (ctx.result.risk_reward = None) <=> (RiskDistance = 0)
        /\ ctx.result.risk_reward # None =>
              /\ ctx.result.risk_reward >= 200
              /\ rin.direction = "buy" => ctx.result.target_price > LastClose
              /\ rin.direction = "sell" => ctx.result.target_price < LastClose

\* C17, the failing case: a buy at 2.004 with an ATR of 0.028; the stop is
\* 1.95, the target 2.11 and the reported risk_reward 1.96
C17_Witness ==
    /\ RiskComputed
    /\ rin.direction = "buy"
    /\ LastClose = 2004
    /\ LastAtr14 = 393
    /\ ctx.result.stop_loss = 1950
    /\ ctx.result.target_price = 2110
    /\ ctx.result.risk_reward = 196

\* the share of portfolio_value put at risk, in units of 1e-7: 0.5% plus 1.5%
\* times the size of the score, which counts as 1 at most
RiskBudget == 50000 + 15 * (IF Abs(rin.composite_score) > Scale THEN Scale
                            ELSE Abs(rin.composite_score))

\* C18: in a defined context the position is 0 shares when the stop is at the
\* entry, and otherwise, to the 2 decimals reported, the number of shares whose
\* loss at the stop, shares * |entry - stop|, is portfolio_value * risk_pct,
\* with risk_pct = 0.5% + min(|composite_score|, 1) * 1.5%, between 0.5% and 2%
C18_PositionSizing ==
    (RiskComputed /\ ContextDefined) =>
        /\ RiskBudget >= 50000 /\ RiskBudget <= 200000
        /\ RiskDistance = 0 => ctx.result.position_size = 0
        /\ RiskDistance > 0 =>
              2 * Abs(ctx.result.position_size * RiskDistance
                      - 100 * rin.portfolio_value * RiskBudget) <= RiskDistance

\* a sell at a score of -0.5 on a portfolio that is not empty: 1.25% of it is
\* at risk, over a stop 2 * ATR from the close
C18_Witness ==
    /\ RiskComputed
    /\ ContextDefined
    /\ rin.portfolio_value > 0
    /\ rin.composite_score = -5000
    /\ RiskBudget = 125000
    /\ RiskDistance > 100
    /\ ctx.result.position_size > 0
    /\ ctx.result.position_size * RiskDistance # 100 * rin.portfolio_value * RiskBudget

-----------------------------------------------------------------------------
\* routers/paper_trading.py: the paper account and its trades.  Prices and cash are
\* in mills (1e-3 dollar), quantities whole, so that the rounding of pnl to cents
\* is not the identity.  A request to close a trade runs in its own session and gives way
\* to other requests at each await: after db.get, after _get_or_create_account and
\* at db.commit; its locals are kept in calls.

\* models/paper_trade.py: current_cash of a new account
InitialCash == 100000
\* one dollar in mills
Mill == 1000

\* the clients that send one request to close a trade each
Clients == {"first", "second"}
\* paper_trades holds at most this many rows
MaxTrades == 2
TradeIds == 1 .. MaxTrades + 1
Directions == {"buy", "sell"}
Quantities == {2}
EntryPrices == {10000}
ExitPrices == {8000, 12004}

\* a client that has not sent its request
IdleCall == [pc |-> "idle", status |-> 0, trade_id |-> 0, exit_price |-> 0,
             pnl |-> 0, pnl_pct |-> 0, proceeds |-> 0, current_cash |-> 0]

\* PaperTrade(...): status defaults to open; exit_price, pnl and pnl_pct are None
NewTrade(direction, quantity, entry_price) ==
    [direction |-> direction, quantity |-> quantity, entry_price |-> entry_price,
     exit_price |-> None, status |-> "open", pnl |-> None, pnl_pct |-> None]

\* the id the table gives to a new row: one more than the largest id in it
NextId(table) ==
    IF DOMAIN table = {} THEN 1
    ELSE 1 + CHOOSE m \in DOMAIN table : \A k \in DOMAIN table : k <= m

\* _get_or_create_account: the cash of the account, a new one when there is none
AccountCash(acct) == IF acct = NoAccount THEN InitialCash * Mill ELSE acct

\* open_paper_trade with a direction of buy or sell: 400 and no change when a buy
\* costs more than the cash, else the row is added and a buy pays its cost
OpenTrade(direction, quantity, entry_price) ==
    LET cost == quantity * entry_price
        cash == AccountCash(account)
    IN  IF direction = "buy" /\ cost > cash
        THEN /\ account' = cash
             /\ UNCHANGED trades
        ELSE /\ account' = IF direction = "buy" THEN cash - cost ELSE cash
             /\ trades' = [id \in DOMAIN trades \cup {NextId(trades)} |->
                             IF id \in DOMAIN trades THEN trades[id]
                             ELSE NewTrade(direction, quantity, entry_price)]

\* a request to open a trade
OpenPaperTrade ==
    /\ Cardinality(DOMAIN trades) < MaxTrades
    /\ \E direction \in Directions, quantity \in Quantities, entry_price \in EntryPrices :
         OpenTrade(direction, quantity, entry_price)
    /\ UNCHANGED <<calls, outsidePaper>>

\* close_paper_trade without the test of the status
CloseStatusUnchecked(table, trade_id) ==
    IF trade_id \notin DOMAIN table THEN 404 ELSE 0

\* close_paper_trade, the two tests after db.get: the status code of the rejection,
\* 0 when the trade is to be closed
CloseStatus(table, trade_id) ==
    IF trade_id \notin DOMAIN table THEN 404
    ELSE IF table[trade_id].status = "closed" THEN 409
    ELSE 0

\* trade.pnl: round((exit - entry) * quantity, 2) for a buy, the opposite for a sell
Pnl(trade, exit_price) ==
    IF trade.direction = "buy"
    THEN RoundCents((exit_price - trade.entry_price) * trade.quantity, 1)
    ELSE RoundCents((trade.entry_price - exit_price) * trade.quantity, 1)

\* trade.pnl_pct in 1e-2 percent: round(pnl / (entry * quantity) * 100, 2), 0 for no cost
\* (the whole multiples of the cost are taken out first to keep the product small)
PnlPct(trade, pnl) ==
    LET cost == trade.entry_price * trade.quantity
    IN  IF cost # 0
        THEN FloorDiv(pnl, cost) * 10000
             + RoundDiv((pnl - FloorDiv(pnl, cost) * cost) * 10000, cost)
        ELSE 0

\* the account gets back the profit or loss of a buy too, not its sale
ProceedsOfPnl(trade, exit_price) == Pnl(trade, exit_price)

\* what the account gets back: the sale for a buy, the profit or loss for a short
Proceeds(trade, exit_price) ==
    IF trade.direction = "buy" THEN exit_price * trade.quantity
    ELSE Pnl(trade, exit_price)

\* close_paper_trade up to its second await: db.get, the rejections, and the new
\* values of the trade, set on the session's copy of the row
CloseGet(c) ==
    /\ calls[c].pc = "idle"
    /\ \E trade_id \in TradeIds, exit_price \in ExitPrices :
         LET status == CloseStatus(trades, trade_id)
         IN  calls' = [calls EXCEPT ![c] =
                IF status # 0
                THEN [IdleCall EXCEPT !.pc = "done", !.status = status,
                                      !.trade_id = trade_id, !.exit_price = exit_price]
                ELSE [pc |-> "got", status |-> 0, trade_id |-> trade_id,
                      exit_price |-> exit_price,
                      pnl |-> Pnl(trades[trade_id], exit_price),
                      pnl_pct |-> PnlPct(trades[trade_id], Pnl(trades[trade_id], exit_price)),
                      proceeds |-> Proceeds(trades[trade_id], exit_price),
                      current_cash |-> 0]]
    /\ UNCHANGED <<trades, account, outsidePaper>>

\* close_paper_trade from _get_or_create_account to the await of db.commit: the
\* account is read (created and committed when there is none) and credited on the
\* session's copy
CloseCredit(c) ==
    /\ calls[c].pc = "got"
    /\ calls' = [calls EXCEPT ![c].pc = "credited",
                              ![c].current_cash = AccountCash(account) + calls[c].proceeds]
    /\ account' = AccountCash(account)
    /\ UNCHANGED <<trades, outsidePaper>>

\* close_paper_trade, db.commit: the changed columns of the two rows are written;
\* the update of a row that was deleted meanwhile fails and nothing is written
CloseCommit(c) ==
    /\ calls[c].pc = "credited"
    /\ IF calls[c].trade_id \in DOMAIN trades
       THEN /\ trades' = [trades EXCEPT ![calls[c].trade_id] =
                            [@ EXCEPT !.exit_price = calls[c].exit_price,
                                      !.status = "closed",
                                      !.pnl = calls[c].pnl,
                                      !.pnl_pct = calls[c].pnl_pct]]
            /\ account' = calls[c].current_cash
            /\ calls' = [calls EXCEPT ![c].pc = "done", ![c].status = 200]
       ELSE /\ calls' = [calls EXCEPT ![c].pc = "done", ![c].status = 500]
            /\ UNCHANGED <<trades, account>>
    /\ UNCHANGED outsidePaper

\* reset_paper_account: every trade is deleted and the cash is back at its start
ResetPaperAccount ==
    /\ trades # <<>>
    /\ trades' = <<>>
    /\ account' = InitialCash * Mill
    /\ UNCHANGED <<calls, outsidePaper>>

InitPaper ==
    /\ trades = <<>>
    /\ account = NoAccount
    /\ calls = [c \in Clients |-> IdleCall]
    /\ IdleOutsidePaper

NextPaper ==
    \/ OpenPaperTrade
    \/ \E c \in Clients : CloseGet(c)
    \/ \E c \in Clients : CloseCredit(c)
    \/ \E c \in Clients : CloseCommit(c)
    \/ ResetPaperAccount

SpecPaper == InitPaper /\ [][NextPaper]_vars

\* the request of client c was answered in this step
CloseAnswered(c) == calls[c].pc # "done" /\ calls'[c].pc = "done"

\* client c's request found its trade in the table, closed, when it came in
FoundClosed(c) ==
    /\ calls[c].pc = "idle" /\ calls'[c].pc # "idle"
    /\ calls'[c].trade_id \in DOMAIN trades
    /\ trades[calls'[c].trade_id].status = "closed"

\* client c's request named an id that is not in the table when it came in
FoundNone(c) ==
    /\ calls[c].pc = "idle" /\ calls'[c].pc # "idle"
    /\ calls'[c].trade_id \notin DOMAIN trades

\* C20: a paper trade's status only moves from open to closed: no step takes a row
\* of the table from closed to open; a request to close a trade that is closed when
\* the request comes in is answered 409 and a request for an id that is not in the
\* table 404, only such requests get these answers, and the step that answers so
\* leaves every trade (exit_price, pnl, status) and the account's current_cash as
\* they were.
C20_CloseRejected ==
    [][/\ \A id \in DOMAIN trades \cap DOMAIN trades' :
            trades[id].status = "closed" => trades'[id].status = "closed"
       /\ \A c \in Clients :
            /\ FoundClosed(c) => CloseAnswered(c) /\ calls'[c].status = 409
            /\ FoundNone(c) => CloseAnswered(c) /\ calls'[c].status = 404
            /\ CloseAnswered(c) /\ calls'[c].status = 409 => FoundClosed(c)
            /\ CloseAnswered(c) /\ calls'[c].status = 404 => FoundNone(c)
            /\ CloseAnswered(c) /\ calls'[c].status \in {404, 409} =>
                 trades' = trades /\ account' = account]_vars

\* C20 witness: one client has closed a trade and another, asking to close the same
\* trade afterwards, was answered 409; the trade is as the first one left it
C20_Witness ==
    \E c \in Clients, d \in Clients :
        /\ c # d
        /\ calls[c].pc = "done" /\ calls[c].status = 200
        /\ calls[d].pc = "done" /\ calls[d].status = 409
        /\ calls[d].trade_id = calls[c].trade_id
        /\ calls[d].exit_price # calls[c].exit_price
        /\ calls[c].trade_id \in DOMAIN trades
        /\ trades[calls[c].trade_id].status = "closed"
        /\ trades[calls[c].trade_id].exit_price = calls[c].exit_price
        /\ trades[calls[c].trade_id].pnl = calls[c].pnl

-----------------------------------------------------------------------------
\* The paper account under requests that are served one after the other: each
\* handler runs from its first line to its return before the next one starts.

LedgerQuantities == {1, 3}
LedgerEntryPrices == {10000, 10001}
\* the last one is a price of 60,000 dollars
LedgerExitPrices == {9000, 10004, 60000000}

\* a request to open a trade, served whole
OpenLedgerTrade ==
    /\ Cardinality(DOMAIN trades) < MaxTrades
    /\ \E direction \in Directions, quantity \in LedgerQuantities,
          entry_price \in LedgerEntryPrices :
         OpenTrade(direction, quantity, entry_price)
    /\ UNCHANGED <<calls, outsidePaper>>

\* close_paper_trade served whole: the rejections, else the trade is closed with
\* its pnl and the account is credited
ClosePaperTrade ==
    /\ \E trade_id \in TradeIds, exit_price \in LedgerExitPrices :
         IF CloseStatus(trades, trade_id) # 0
         THEN UNCHANGED <<trades, account>>
         ELSE /\ trades' = [trades EXCEPT ![trade_id] =
                              [@ EXCEPT !.exit_price = exit_price,
                                        !.status = "closed",
                                        !.pnl = Pnl(trades[trade_id], exit_price),
                                        !.pnl_pct = PnlPct(trades[trade_id],
                                                           Pnl(trades[trade_id], exit_price))]]
              /\ account' = AccountCash(account) + Proceeds(trades[trade_id], exit_price)
    /\ UNCHANGED <<calls, outsidePaper>>

InitLedger ==
    /\ trades = <<>>
    /\ account = NoAccount
    /\ calls = <<>>
    /\ IdleOutsidePaper

NextLedger ==
    \/ OpenLedgerTrade
    \/ ClosePaperTrade
    \/ ResetPaperAccount

SpecLedger == InitLedger /\ [][NextLedger]_vars

\* what one row of the table has done to the cash: an open buy has paid its cost,
\* a closed buy has paid its cost and got its sale, a closed short has got its pnl
CashEffect(trade) ==
    IF trade.direction = "buy"
    THEN IF trade.status = "open" THEN 0 - trade.quantity * trade.entry_price
         ELSE trade.quantity * trade.exit_price - trade.quantity * trade.entry_price
    ELSE IF trade.status = "open" THEN 0 ELSE trade.pnl

RECURSIVE SumCashEffect(_, _)
SumCashEffect(table, n) ==
    IF n = 0 THEN 0 ELSE SumCashEffect(table, n - 1) + CashEffect(table[n])

RECURSIVE SumClosedPnl(_, _)
SumClosedPnl(table, n) ==
    IF n = 0 THEN 0
    ELSE SumClosedPnl(table, n - 1)
         + (IF table[n].status = "closed" THEN table[n].pnl ELSE 0)

ClosedBuys(table) ==
    {id \in DOMAIN table : table[id].status = "closed" /\ table[id].direction = "buy"}

AllClosed(table) == \A id \in DOMAIN table : table[id].status = "closed"

C30_CashNeverNegative ==
    AccountCash(account) >= 0

\* C30 witness: a short was opened and closed at a loss larger than the cash of the
\* account, and the cash is negative
C30_Witness ==
    /\ AccountCash(account) < 0
    /\ \E id \in DOMAIN trades :
         /\ trades[id].direction = "sell"
         /\ trades[id].status = "closed"
         /\ trades[id].pnl < 0 - InitialCash * Mill
         /\ \A other \in DOMAIN trades \ {id} : trades[other].direction = "buy"

-----------------------------------------------------------------------------
\* routers/portfolio.py: a position and its transactions.  Quantities and prices
\* are whole; avg_cost is the quotient [num, den] in lowest terms.  Requests are
\* served one after the other.

\* a position takes at most this many transactions after the one that opens it
MaxTransactions == 3
\* the second id is of no position
PositionIds == {1, 2}
OpenQuantities == {2, 5}
TxnQuantities == {1, 2, 5}
TxnPrices == {100, 200}
TransactionTypes == {"buy", "sell"}

RECURSIVE Gcd(_, _)
Gcd(a, b) == IF b = 0 THEN a ELSE Gcd(b, a % b)

\* num / den in lowest terms
Quotient(num, den) ==
    IF num = 0 THEN [num |-> 0, den |-> 1]
    ELSE [num |-> num \div Gcd(num, den), den |-> den \div Gcd(num, den)]

Transaction(transaction_type, quantity, price) ==
    [transaction_type |-> transaction_type, quantity |-> quantity, price |-> price]

MakeAnswer(status, request, position_id, quantity, price) ==
    [status |-> status, request |-> request, position_id |-> position_id,
     quantity |-> quantity, price |-> price]

\* open_position on an asset that exists: the position starts with the quantity and
\* the price of the request and with one BUY transaction
OpenPosition ==
    /\ positions = <<>>
    /\ \E quantity \in OpenQuantities, price \in TxnPrices :
         /\ positions' = <<[quantity |-> quantity,
                            avg_cost |-> Quotient(price, 1),
                            transactions |-> <<Transaction("buy", quantity, price)>>]>>
         /\ answer' = MakeAnswer(201, "open", 1, quantity, price)
    /\ UNCHANGED outsidePortfolio

\* add_transaction sells whatever the position holds
SellNeverRejected(position, quantity) == FALSE

\* add_transaction: a SELL of more than the position holds is refused
SellRejected(position, quantity) == quantity > position.quantity

\* add_transaction, BUY: the quantity grows and avg_cost is the cost of all that is
\* held over the new quantity, 0.0 for a quantity of 0
AfterBuy(position, quantity, price) ==
    [position EXCEPT
        !.quantity = position.quantity + quantity,
        !.avg_cost =
            IF position.quantity + quantity # 0
            THEN Quotient(position.quantity * position.avg_cost.num
                            + quantity * price * position.avg_cost.den,
                          position.avg_cost.den * (position.quantity + quantity))
            ELSE Quotient(0, 1),
        !.transactions = Append(position.transactions, Transaction("buy", quantity, price))]

\* add_transaction, SELL that is not refused: the quantity shrinks
AfterSell(position, quantity, price) ==
    [position EXCEPT
        !.quantity = position.quantity - quantity,
        !.transactions = Append(position.transactions, Transaction("sell", quantity, price))]

\* add_transaction: 404 for an unknown position, 400 for a SELL that is refused,
\* else the position is updated and the transaction stored
AddTransaction ==
    \E position_id \in PositionIds, transaction_type \in TransactionTypes,
       quantity \in TxnQuantities, price \in TxnPrices :
        IF position_id \notin DOMAIN positions
        THEN /\ answer' = MakeAnswer(404, transaction_type, position_id, quantity, price)
             /\ UNCHANGED <<positions, outsidePortfolio>>
        ELSE /\ Len(positions[position_id].transactions) <= MaxTransactions
             /\ IF transaction_type = "buy"
                THEN /\ positions' = [positions EXCEPT ![position_id] =
                                         AfterBuy(@, quantity, price)]
                     /\ answer' = MakeAnswer(201, "buy", position_id, quantity, price)
                ELSE IF SellRejected(positions[position_id], quantity)
                THEN /\ answer' = MakeAnswer(400, "sell", position_id, quantity, price)
                     /\ UNCHANGED positions
                ELSE /\ positions' = [positions EXCEPT ![position_id] =
                                         AfterSell(@, quantity, price)]
                     /\ answer' = MakeAnswer(201, "sell", position_id, quantity, price)
             /\ UNCHANGED outsidePortfolio

\* delete_position: only a position with a quantity of 0 is deleted (409 otherwise)
DeletePosition ==
    /\ 1 \in DOMAIN positions
    /\ IF positions[1].quantity # 0
       THEN /\ answer' = MakeAnswer(409, "delete", 1, 0, 0)
            /\ UNCHANGED positions
       ELSE /\ answer' = MakeAnswer(204, "delete", 1, 0, 0)
            /\ positions' = <<>>
    /\ UNCHANGED outsidePortfolio

InitPortfolio ==
    /\ positions = <<>>
    /\ answer = NoAnswer
    /\ IdleOutsidePortfolio

NextPortfolio ==
    \/ OpenPosition
    \/ AddTransaction
    \/ DeletePosition

SpecPortfolio == InitPortfolio /\ [][NextPortfolio]_vars

\* the step served a request to add a SELL to a position that exists
SellServed ==
    /\ answer' # answer \/ positions' # positions
    /\ answer'.request = "sell"
    /\ answer'.position_id \in DOMAIN positions

\* C22: a SELL whose quantity exceeds the quantity of the position is answered 400
\* and leaves the position's quantity, avg_cost and transactions as they were, and
\* only such a SELL is refused; a SELL that is accepted takes its quantity off the
\* position, stores the transaction and leaves avg_cost as it was; the quantity of
\* a position is never negative.
C22_SellWithinHolding ==
    [][/\ SellServed =>
            LET before == positions[answer'.position_id]
            IN  /\ (answer'.quantity > before.quantity) <=> (answer'.status = 400)
                /\ answer'.status = 400 => positions' = positions
                /\ answer'.status # 400 =>
                     /\ answer'.status = 201
                     /\ positions'[answer'.position_id].quantity
                          = before.quantity - answer'.quantity
                     /\ positions'[answer'.position_id].avg_cost = before.avg_cost
                     /\ Len(positions'[answer'.position_id].transactions)
                          = Len(before.transactions) + 1
       /\ \A id \in DOMAIN positions' : positions'[id].quantity >= 0]_vars

\* C22 witness: after a buy at another price and an accepted sell, a sell of more
\* than the position holds was refused; avg_cost is not a price of any transaction
C22_Witness ==
    /\ answer.status = 400
    /\ answer.request = "sell"
    /\ 1 \in DOMAIN positions
    /\ answer.quantity > positions[1].quantity
    /\ positions[1].quantity > 0
    /\ positions[1].avg_cost.den # 1
    /\ \E i \in 1 .. Len(positions[1].transactions) :
         positions[1].transactions[i].transaction_type = "sell"

-----------------------------------------------------------------------------
\* score_rsi on a close series: the RSI of technical.rsi at the last bar, scored.
\* The series start at RsiBasePrice and move by one step a bar up to a turn and by
\* another step after it.

\* score_rsi's default period
RsiPeriod == 14
RsiBasePrice == 500
RsiSteps == {0 - 3, 0 - 1, 0, 1, 2}
RsiLengths == {RsiPeriod - 1, RsiPeriod + 2}

RsiSeries(n, turn, before, after) ==
    [i \in 1 .. n |->
        IF i <= turn THEN RsiBasePrice + (i - 1) * before
        ELSE RsiBasePrice + (turn - 1) * before + (i - turn) * after]

InitRsi ==
    /\ \E n \in RsiLengths, turn \in 1 .. RsiPeriod + 2, before \in RsiSteps,
          after \in RsiSteps :
         closes = RsiSeries(n, turn, before, after)
    /\ rating = NoCall
    /\ IdleOutsideRsi

\* score_rsi(close)
ScoreRsi ==
    /\ rating = NoCall
    /\ rating' = [pc |-> "done",
                  value |-> rsi(closes, RsiPeriod),
                  score |-> score_rsi([value |-> rsi(closes, RsiPeriod)])]
    /\ UNCHANGED <<closes, outsideRsi>>

NextRsi == ScoreRsi

SpecRsi == InitRsi /\ [][NextRsi]_vars

\* the sum of the rises, and of the falls, over the last RsiPeriod bars
RsiRises ==
    SumSeq([j \in 1 .. RsiPeriod |->
        PyMax(Delta(closes, Len(closes) - RsiPeriod + j), 0)])
RsiFalls ==
    SumSeq([j \in 1 .. RsiPeriod |->
        PyMax(0 - Delta(closes, Len(closes) - RsiPeriod + j), 0)])
RsiScored == rating.pc = "done" /\ Len(closes) >= RsiPeriod

-----------------------------------------------------------------------------
\* compute_composite with a put/call ratio that is not available

\* the put/call input is None, or the NaN of put_call_volume_ratio for a chain
\* without call volume
PutCallUnavailable == cin.put_call_ratio.none \/ IsNaN(cin.put_call_ratio.v)

\* C24: whenever the put/call input is unavailable, passed as None or as NaN,
\* compute_composite gives the put_call_ratio entry score 0 and weight 0 and the
\* weights of the other entries sum to 1.0 (within the tolerance of the test of
\* the redistribution).
C24_UnavailableRedistributed ==
    (ReturnedSignal /\ PutCallUnavailable) =>
        /\ sig.signals[EntryOf("put_call_ratio")].score = 0
        /\ sig.signals[EntryOf("put_call_ratio")].weight = 0
        /\ Abs(OtherWeights - Scale) < WeightSumTolerance

\* C24 witness: compute_composite was called with a NaN put/call ratio; its entry
\* has score 0 but keeps its weight, and the other weights are the static ones
C24_Witness ==
    /\ ReturnedSignal
    /\ ~cin.put_call_ratio.none /\ IsNaN(cin.put_call_ratio.v)
    /\ sig.signals[EntryOf("put_call_ratio")].score = 0
    /\ sig.signals[EntryOf("put_call_ratio")].weight = WEIGHTS["put_call_ratio"]
    /\ sig.signals[EntryOf("trend")].weight = WEIGHTS["trend"]
    /\ OtherWeights = Scale - WEIGHTS["put_call_ratio"]

-----------------------------------------------------------------------------
\* The wave labels of detect_waves

\* the wave labels of the reported pivots, in order
WaveLabels == [i \in 1 .. Len(wave.result.wave_pivots) |-> wave.result.wave_pivots[i].wave_label]
ImpulseDetected == WavesDetected /\ wave.result.pattern \in {"impulse_up", "impulse_down"}
CorrectiveDetected == WavesDetected /\ wave.result.pattern \in {"corrective_up", "corrective_down"}

\* C25: of the six pivots of a matched impulse the first is the start and the pivot
\* that ends wave k (the pivot after k legs) carries label k, so no two pivots carry
\* the same label; the four pivots of a corrective are labelled start, A, B, C.
C25_LabelsByWave ==
    /\ ImpulseDetected =>
         /\ Len(WaveLabels) = 6
         /\ \A k \in 1 .. 5 : WaveLabels[k + 1] = _IMPULSE_LABELS[k]
         /\ \A i \in 1 .. 6, j \in 1 .. 6 : i # j => WaveLabels[i] # WaveLabels[j]
    /\ CorrectiveDetected => WaveLabels = <<"start">> \o _CORRECTIVE_LABELS

\* C25 witness: an impulse was detected; its first pivot is labelled 1 and its
\* last two pivots are both labelled 5
C25_Witness ==
    /\ ImpulseDetected
    /\ WaveLabels = <<"1", "2", "3", "4", "5", "5">>

-----------------------------------------------------------------------------
\* The swings between the pivots of zigzag_pivots

\* the high pivots lie above and the low pivots below the pivots next to them
HighsAboveLows(pivots) ==
    \A k \in 1 .. Len(pivots) - 1 :
        IF pivots[k].type = "high" THEN pivots[k].price > pivots[k + 1].price
        ELSE pivots[k].price < pivots[k + 1].price

\* every two consecutive pivots lie at least min_swing apart, the one of type high
\* not below the one of type low
SwingsAtLeast(pivots, min_swing) ==
    \A k \in 1 .. Len(pivots) - 1 :
        IF pivots[k].type = "high"
        THEN (pivots[k].price - pivots[k + 1].price) * SwingUnit >= min_swing
        ELSE (pivots[k + 1].price - pivots[k].price) * SwingUnit >= min_swing

-----------------------------------------------------------------------------
\* When detect_waves finds no pattern

EnoughBars == Len(bars.close) >= MinWaveBars

\* C27: detect_waves returns pattern "unclear" only when the series has fewer than
\* 50 bars or the zigzag finds fewer than 4 pivots; with 50 bars or more and 4
\* pivots or more the pattern is an impulse or a corrective and the confidence is
\* at least 0.4, so a pattern other than "unclear" never comes with a confidence
\* under the 0.15 of score_elliott_wave.
C27_UnclearOnlyWithoutPivots ==
    WavesDetected =>
        /\ wave.result.pattern = "unclear" <=> (~EnoughBars \/ Len(WavePivots) < 4)
        /\ wave.result.pattern # "unclear" =>
             /\ wave.result.pattern \in
                  {"impulse_up", "impulse_down", "corrective_up", "corrective_down"}
             /\ wave.result.confidence >= CorrectiveConfidence
             /\ wave.result.confidence >= MinConfidence

\* C27 witness: on a series of 50 bars or more with exactly 4 pivots a corrective
\* was detected with confidence 0.4
C27_Witness ==
    /\ WavesDetected
    /\ EnoughBars
    /\ Len(WavePivots) = 4
    /\ wave.result.pattern = "corrective_up"
    /\ wave.result.confidence = CorrectiveConfidence

-----------------------------------------------------------------------------
\* The current wave of a detected pattern and the size of the wave score

-----------------------------------------------------------------------------
\* The risk context of a hold

\* C29: compute_risk_context with direction "hold" returns the null context
\* whatever the ATR, and a position size other than 0 is reported for the
\* directions "buy" and "sell" only.
C29_HoldIsNull ==
    ctx.pc = "done" =>
        /\ rin.direction = "hold" => ctx.result = NullContext
        /\ ctx.result.position_size # 0 => rin.direction \in {"buy", "sell"}
        /\ ctx.result.stop_loss # None => rin.direction \in {"buy", "sell"}

\* C29 witness: a hold was answered with the null context on a series whose ATR
\* is defined and positive, for a portfolio that has a value
C29_Witness ==
    /\ ctx.pc = "done"
    /\ rin.direction = "hold"
    /\ AtrDefined
    /\ LastAtr14 > 0
    /\ rin.portfolio_value > 0
    /\ ctx.result = NullContext

====
